---- MODULE Spec2Model ----
(***************************************************************************)
(* A model of korean_quiz.py: the weighting function, the question         *)
(* builder, the progress store (load_progress / save_progress) and the     *)
(* answer handler of QuizApp.                                              *)
(*                                                                         *)
(* Representation choices                                                  *)
(*  - A weight is a Python float.  Every weight compute_weight can return  *)
(*    for a history of at most 10 entries is a multiple of 1/2520, so a    *)
(*    weight w is kept as the integer w * WeightScale (exact arithmetic,   *)
(*    no rounding).                                                        *)
(*  - A timestamp is the string strftime gives; it is kept as a natural    *)
(*    number, 0 standing for the empty string "".                          *)
(*  - A JSON scalar is a record [t, n]: its type and its integer value.    *)
(***************************************************************************)
EXTENDS Integers, Sequences, FiniteSets, TLC

VARIABLES
    \* QuizApp
    progress,                  \* self.progress: category -> term -> record
    current_streak,            \* self.current_streak
    longest_streak,            \* self.longest_streak
    streak_timestamp,          \* self.streak_timestamp
    longest_streak_timestamp,  \* self.longest_streak_timestamp
    save_error_reported,       \* self.save_error_reported
    dialog,                    \* messagebox.showwarning of save_progress has not returned
    disk,                      \* the content of progress_path
    event,                     \* the last operation and its inputs (history variable)
    log,                       \* every outcome recorded so far, per category and term
    handled,                   \* the answer events handled so far, in order (history variable)
    \* one call of build_question
    pool, stats, mode, direction, selected, question,
    \* one call of compute_weight
    history, weight,
    \* one call of load_vocab
    raw_items,                 \* the parsed content of the vocabulary file
    loaded_vocabulary,         \* what load_vocab returned or raised
    \* the question cards
    cards,                     \* panel -> category, term of the question, active, timer
    \* one call of load_progress
    requested,                 \* the categories argument
    load_result                \* what load_progress returned or raised

appvars == <<progress, current_streak, longest_streak, streak_timestamp,
             longest_streak_timestamp, save_error_reported, dialog, disk, event,
             log, handled>>
qvars == <<pool, stats, direction, selected, question>>
wvars == <<history, weight>>
vvars == <<raw_items, loaded_vocabulary>>
cvars == <<cards>>
lvars == <<requested, load_result>>
vars == <<appvars, qvars, wvars, vvars, cvars, lvars, mode>>

(***************************************************************************)
(* Program constants and bounds                                            *)
(***************************************************************************)
HistoryWindow == 10
MinEntries == 4
NumDistractors == 3
WeightScale == 8 * 9 * 5 * 7

MaxAnswers == 2
MaxRecords == 11
MaxDup == 1
MaxOdd == 3
MaxSaves == 3
MaxEvents == 3
MaxCount == 12

Categories == {"c1", "c2"}
Terms == {"t1", "t2"}
Times == {1, 2}
Modes == {"fresh", "review"}
Directions == {"ko-en", "en-ko"}

Max(a, b) == IF a >= b THEN a ELSE b
Min(a, b) == IF a <= b THEN a ELSE b

\* history[-10:]
LastWindow(h) ==
    IF Len(h) > HistoryWindow
    THEN SubSeq(h, Len(h) - HistoryWindow + 1, Len(h))
    ELSE h

\* history.count(0)
CountZeros(h) == Cardinality({i \in 1..Len(h) : h[i] = 0})

(***************************************************************************)
(* compute_weight                                                          *)
(***************************************************************************)
compute_weight_zero_mastered(h, m) ==
    LET attempts == Len(h)
        wrong == CountZeros(h)
        wrong_ratio == IF attempts # 0 THEN (wrong * WeightScale) \div attempts
                       ELSE WeightScale
        w == IF attempts < HistoryWindow
             THEN LET fill == HistoryWindow - attempts
                  IN  IF m = "fresh"
                      THEN 18 * WeightScale + fill * 8 * WeightScale + wrong_ratio * 4
                      ELSE 10 * WeightScale + fill * 5 * WeightScale + wrong_ratio * 8
             ELSE IF wrong_ratio = 0
                  THEN 0
                  ELSE LET base == IF m = "fresh" THEN (3 * WeightScale) \div 2
                                   ELSE WeightScale
                           multiplier == IF m = "fresh" THEN 8 ELSE 14
                       IN  base + wrong_ratio * multiplier
    IN  w

compute_weight_window_ratio(h, m) ==
    LET attempts == Len(h)
        wrong == CountZeros(h)
        wrong_ratio == (wrong * WeightScale) \div HistoryWindow
        w == IF attempts < HistoryWindow
             THEN LET fill == HistoryWindow - attempts
                  IN  IF m = "fresh"
                      THEN 18 * WeightScale + fill * 8 * WeightScale + wrong_ratio * 4
                      ELSE 10 * WeightScale + fill * 5 * WeightScale + wrong_ratio * 8
             ELSE IF wrong_ratio = 0
                  THEN IF m = "fresh" THEN WeightScale \div 4 ELSE WeightScale \div 10
                  ELSE LET base == IF m = "fresh" THEN (3 * WeightScale) \div 2
                                   ELSE WeightScale
                           multiplier == IF m = "fresh" THEN 8 ELSE 14
                       IN  base + wrong_ratio * multiplier
    IN  Max(w, WeightScale \div 10)

compute_weight_review_first(h, m) ==
    LET attempts == Len(h)
        wrong == CountZeros(h)
        wrong_ratio == IF attempts # 0 THEN (wrong * WeightScale) \div attempts
                       ELSE WeightScale
        w == IF attempts < HistoryWindow
             THEN LET fill == HistoryWindow - attempts
                  IN  IF m = "review"
                      THEN 18 * WeightScale + fill * 8 * WeightScale + wrong_ratio * 4
                      ELSE 10 * WeightScale + fill * 5 * WeightScale + wrong_ratio * 8
             ELSE IF wrong_ratio = 0
                  THEN IF m = "fresh" THEN WeightScale \div 4 ELSE WeightScale \div 10
                  ELSE LET base == IF m = "fresh" THEN (3 * WeightScale) \div 2
                                   ELSE WeightScale
                           multiplier == IF m = "fresh" THEN 8 ELSE 14
                       IN  base + wrong_ratio * multiplier
    IN  Max(w, WeightScale \div 10)

compute_weight_one_multiplier(h, m) ==
    LET attempts == Len(h)
        wrong == CountZeros(h)
        wrong_ratio == IF attempts # 0 THEN (wrong * WeightScale) \div attempts
                       ELSE WeightScale
        w == IF attempts < HistoryWindow
             THEN LET fill == HistoryWindow - attempts
                  IN  IF m = "fresh"
                      THEN 18 * WeightScale + fill * 8 * WeightScale + wrong_ratio * 4
                      ELSE 10 * WeightScale + fill * 5 * WeightScale + wrong_ratio * 8
             ELSE IF wrong_ratio = 0
                  THEN IF m = "fresh" THEN WeightScale \div 4 ELSE WeightScale \div 10
                  ELSE LET base == IF m = "fresh" THEN (3 * WeightScale) \div 2
                                   ELSE WeightScale
                           multiplier == 8
                       IN  base + wrong_ratio * multiplier
    IN  Max(w, WeightScale \div 10)

compute_weight(h, m) ==
    LET attempts == Len(h)
        wrong == CountZeros(h)
        wrong_ratio == IF attempts # 0 THEN (wrong * WeightScale) \div attempts
                       ELSE WeightScale
        w == IF attempts < HistoryWindow
             THEN LET fill == HistoryWindow - attempts
                  IN  IF m = "fresh"
                      THEN 18 * WeightScale + fill * 8 * WeightScale + wrong_ratio * 4
                      ELSE 10 * WeightScale + fill * 5 * WeightScale + wrong_ratio * 8
             ELSE IF wrong_ratio = 0
                  THEN IF m = "fresh" THEN WeightScale \div 4 ELSE WeightScale \div 10
                  ELSE LET base == IF m = "fresh" THEN (3 * WeightScale) \div 2
                                   ELSE WeightScale
                           multiplier == IF m = "fresh" THEN 8 ELSE 14
                       IN  base + wrong_ratio * multiplier
    IN  Max(w, WeightScale \div 10)

(***************************************************************************)
(* JSON values of the progress file                                        *)
(***************************************************************************)
JInt(n) == [t |-> "int", n |-> n]
JBool(b) == [t |-> "bool", n |-> IF b THEN 1 ELSE 0]
\* a string int() parses, such as "3"
JNumStr(n) == [t |-> "numstr", n |-> n]
\* any other string
JText == [t |-> "str", n |-> 0]
\* null, or an object or a list: int() raises TypeError
JNull == [t |-> "null", n |-> 0]
\* a finite float; n is its truncation to an integer
JFloat(n) == [t |-> "float", n |-> n]
\* the float json.load reads NaN as: int() raises ValueError
JNaN == [t |-> "nan", n |-> 0]
\* the float json.load reads Infinity, -Infinity or 1e999 as: int() raises
\* OverflowError
JInf == [t |-> "inf", n |-> 0]
\* the key is not in the object
JAbsent == [t |-> "absent", n |-> 0]

\* int(x) succeeds (no TypeError, no ValueError)
CanInt(x) == x.t \in {"int", "bool", "numstr", "float"}
\* isinstance(value, (int, bool))
IsIntOrBool(x) == x.t \in {"int", "bool"}
\* 1 if bool(value) else 0, for an int or a bool
Bit(x) == IF x.n # 0 THEN 1 ELSE 0

\* [1] * n and [0] * n (an empty list when n <= 0)
Ones(n) == [i \in 1..n |-> 1]
Zeros(n) == [i \in 1..n |-> 0]

\* [1 if bool(value) else 0 for value in items if isinstance(value, (int, bool))]
BitList(items) ==
    LET kept == SelectSeq(items, IsIntOrBool)
    IN  [i \in 1..Len(kept) |-> Bit(kept[i])]

\* The per-item shapes of the file.  shape is "dict_history" (an object whose
\* "history" is a list), "dict" (any other object: attempts and correct are
\* read), "list" (a bare list) or "other" (anything else).
RawRecord(shape, items, attempts, correct) ==
    [shape |-> shape, items |-> items, attempts |-> attempts, correct |-> correct]
RawHistory(items) == RawRecord("dict_history", items, JAbsent, JAbsent)
RawAggregate(attempts, correct) == RawRecord("dict", <<>>, attempts, correct)
RawList(items) == RawRecord("list", items, JAbsent, JAbsent)
RawOther == RawRecord("other", <<>>, JAbsent, JAbsent)

\* record.get("attempts", 0) and record.get("correct", 0)
GetOrZero(x) == IF x.t = "absent" THEN JInt(0) ELSE x

\* load_progress, lines 229-234: int(attempts) or int(correct) raises
\* OverflowError, which the except clause does not catch; int(correct) is
\* reached only when int(attempts) has returned
RecordOverflows(record) ==
    /\ record.shape = "dict"
    /\ \/ GetOrZero(record.attempts).t = "inf"
       \/ /\ CanInt(GetOrZero(record.attempts))
          /\ GetOrZero(record.correct).t = "inf"

ConvertRecord_unclamped(record) ==
    LET h == IF record.shape = "dict_history" THEN BitList(record.items)
             ELSE IF record.shape = "dict"
             THEN LET attempts == GetOrZero(record.attempts)
                      correct == GetOrZero(record.correct)
                      parsed == CanInt(attempts) /\ CanInt(correct)
                      attempts_int == IF parsed THEN attempts.n ELSE 0
                      correct_int0 == IF parsed THEN correct.n ELSE 0
                  IN  IF attempts_int > 0
                      THEN LET correct_int == Max(0, correct_int0)
                               wrong == attempts_int - correct_int
                               first == Ones(Min(correct_int, HistoryWindow))
                           IN  first \o Zeros(Min(wrong, HistoryWindow - Len(first)))
                      ELSE <<>>
             ELSE IF record.shape = "list" THEN BitList(record.items)
             ELSE <<>>
    IN  LastWindow(h)

\* load_progress, lines 217-243: the history one raw record is converted to
ConvertRecord(record) ==
    LET h == IF record.shape = "dict_history" THEN BitList(record.items)
             ELSE IF record.shape = "dict"
             THEN LET attempts == GetOrZero(record.attempts)
                      correct == GetOrZero(record.correct)
                      parsed == CanInt(attempts) /\ CanInt(correct)
                      attempts_int == IF parsed THEN attempts.n ELSE 0
                      correct_int0 == IF parsed THEN correct.n ELSE 0
                  IN  IF attempts_int > 0
                      THEN LET correct_int == Max(0, Min(correct_int0, attempts_int))
                               wrong == attempts_int - correct_int
                               first == Ones(Min(correct_int, HistoryWindow))
                           IN  first \o Zeros(Min(wrong, HistoryWindow - Len(first)))
                      ELSE <<>>
             ELSE IF record.shape = "list" THEN BitList(record.items)
             ELSE <<>>
    IN  LastWindow(h)

EmptyStats == [t \in {} |-> [history |-> <<>>]]

ConvertStats_keep_empty(raw_stats) ==
    [t \in DOMAIN raw_stats |-> [history |-> ConvertRecord(raw_stats[t])]]

\* load_progress, lines 215-246: the stats of one category
ConvertStats(raw_stats) ==
    LET stored == {t \in DOMAIN raw_stats : ConvertRecord(raw_stats[t]) # <<>>}
    IN  [t \in stored |-> [history |-> ConvertRecord(raw_stats[t])]]

DefaultMetadata ==
    [streak |-> 0, streak_timestamp |-> 0,
     longest_streak |-> 0, longest_streak_timestamp |-> 0]

\* max(0, int(raw_meta.get(key, default))), keeping the default on an exception
MetaCount(x, default) ==
    IF x.t = "absent" THEN Max(0, default)
    ELSE IF CanInt(x) THEN Max(0, x.n)
    ELSE default

\* load_progress, lines 193-205: int() of a streak count raises OverflowError
MetaOverflows(hasmeta, raw_meta) ==
    /\ hasmeta
    /\ \/ raw_meta.streak.t = "inf"
       \/ raw_meta.longest_streak.t = "inf"

\* load_progress, lines 191-209
ConvertMeta(hasmeta, raw_meta) ==
    IF ~hasmeta THEN DefaultMetadata
    ELSE [streak |-> MetaCount(raw_meta.streak, DefaultMetadata.streak),
          streak_timestamp |-> raw_meta.streak_timestamp,
          longest_streak |->
              MetaCount(raw_meta.longest_streak, DefaultMetadata.longest_streak),
          longest_streak_timestamp |-> raw_meta.longest_streak_timestamp]

(***************************************************************************)
(* The progress file.  exists: the path exists; utf8: its bytes decode as   *)
(* UTF-8; valid: its text is JSON;                                         *)
(* isdict: the JSON value is an object; hasmeta: "__meta__" is an object;  *)
(* cats[c].isdict: the value under category c is an object (a missing      *)
(* category reads as the empty object), cats[c].recs its items.            *)
(***************************************************************************)
RawMeta(streak, streak_ts, longest, longest_ts) ==
    [streak |-> streak, streak_timestamp |-> streak_ts,
     longest_streak |-> longest, longest_streak_timestamp |-> longest_ts]
NoMeta == RawMeta(JAbsent, 0, JAbsent, 0)
RawCategory(isdict, recs) == [isdict |-> isdict, recs |-> recs]
NoRecords == [t \in {} |-> RawOther]
NoCategories == [c \in Categories |-> RawCategory(TRUE, NoRecords)]

File(exists, valid, isdict, hasmeta, meta, cats) ==
    [exists |-> exists, utf8 |-> TRUE, valid |-> valid, isdict |-> isdict,
     hasmeta |-> hasmeta, meta |-> meta, cats |-> cats]
MissingFile == File(FALSE, FALSE, FALSE, FALSE, NoMeta, NoCategories)
\* what a write that failed after the file was opened leaves: cut-off text
TruncatedFile == File(TRUE, FALSE, FALSE, FALSE, NoMeta, NoCategories)
\* cut-off text whose bytes end inside a multi-byte character
CutCharacterFile == [TruncatedFile EXCEPT !.utf8 = FALSE]
NotAnObjectFile == File(TRUE, TRUE, FALSE, FALSE, NoMeta, NoCategories)
ObjectFile(hasmeta, meta, cats) == File(TRUE, TRUE, TRUE, hasmeta, meta, cats)

\* The key of the metadata in the file; load_category_catalog (lines 311,
\* 325-329) takes it as the name of a category like any other text.
MetaKey == "__meta__"

\* load_progress, line 212: data.get(category, {}).  A category the file has
\* no key for reads as the empty object; for the category named "__meta__"
\* the value is the metadata object, whose items are numbers and texts.
RawStats(file, c) ==
    IF c \in DOMAIN file.cats THEN file.cats[c]
    ELSE IF c = MetaKey /\ file.hasmeta
    THEN RawCategory(TRUE, [k \in DOMAIN file.meta |-> RawOther])
    ELSE RawCategory(TRUE, NoRecords)

load_progress_missing_raises(file, categories) ==
    LET empty == [c \in categories |-> EmptyStats]
        cats == [c \in categories |-> RawStats(file, c)]
    IN  IF ~file.exists
        THEN [status |-> "FileNotFoundError", progress |-> empty,
              metadata |-> DefaultMetadata]
        ELSE IF ~file.utf8
        THEN [status |-> "UnicodeDecodeError", progress |-> empty,
              metadata |-> DefaultMetadata]
        ELSE IF ~file.valid
        THEN [status |-> "JSONDecodeError", progress |-> empty,
              metadata |-> DefaultMetadata]
        ELSE IF ~file.isdict
        THEN [status |-> "ValueError", progress |-> empty,
              metadata |-> DefaultMetadata]
        ELSE IF \/ MetaOverflows(file.hasmeta, file.meta)
                \/ \E c \in categories :
                       /\ cats[c].isdict
                       /\ \E t \in DOMAIN cats[c].recs :
                              RecordOverflows(cats[c].recs[t])
        THEN [status |-> "OverflowError", progress |-> empty,
              metadata |-> DefaultMetadata]
        ELSE [status |-> "ok",
              progress |->
                  [c \in categories |->
                      IF cats[c].isdict
                      THEN ConvertStats(cats[c].recs)
                      ELSE EmptyStats],
              metadata |-> ConvertMeta(file.hasmeta, file.meta)]

\* load_progress: status is "ok" or the exception that leaves it
load_progress(file, categories) ==
    LET empty == [c \in categories |-> EmptyStats]
        cats == [c \in categories |-> RawStats(file, c)]
    IN  IF ~file.exists
        THEN [status |-> "ok", progress |-> empty, metadata |-> DefaultMetadata]
        ELSE IF ~file.utf8
        THEN [status |-> "UnicodeDecodeError", progress |-> empty,
              metadata |-> DefaultMetadata]
        ELSE IF ~file.valid
        THEN [status |-> "JSONDecodeError", progress |-> empty,
              metadata |-> DefaultMetadata]
        ELSE IF ~file.isdict
        THEN [status |-> "ValueError", progress |-> empty,
              metadata |-> DefaultMetadata]
        ELSE IF \/ MetaOverflows(file.hasmeta, file.meta)
                \/ \E c \in categories :
                       /\ cats[c].isdict
                       /\ \E t \in DOMAIN cats[c].recs :
                              RecordOverflows(cats[c].recs[t])
        THEN [status |-> "OverflowError", progress |-> empty,
              metadata |-> DefaultMetadata]
        ELSE [status |-> "ok",
              progress |->
                  [c \in categories |->
                      IF cats[c].isdict
                      THEN ConvertStats(cats[c].recs)
                      ELSE EmptyStats],
              metadata |-> ConvertMeta(file.hasmeta, file.meta)]

(***************************************************************************)
(* QuizApp: the answer handler and the save                                *)
(***************************************************************************)
\* dict[key] = value
DictSet(d, key, value) ==
    [k \in DOMAIN d \cup {key} |-> IF k = key THEN value ELSE d[k]]

\* handle_answer, lines 1158-1163: the "record outcome" operation
record_outcome_untrimmed(prog, category, is_correct, korean_word) ==
    LET category_stats == prog[category]
        record == IF korean_word \in DOMAIN category_stats
                  THEN category_stats[korean_word]
                  ELSE [history |-> <<>>]
        appended == Append(record.history, IF is_correct THEN 1 ELSE 0)
    IN  [prog EXCEPT ![category] =
            DictSet(category_stats, korean_word, [history |-> appended])]

record_outcome_front(prog, category, is_correct, korean_word) ==
    LET category_stats == prog[category]
        record == IF korean_word \in DOMAIN category_stats
                  THEN category_stats[korean_word]
                  ELSE [history |-> <<>>]
        appended == Append(record.history, IF is_correct THEN 1 ELSE 0)
        trimmed == IF Len(appended) > HistoryWindow
                   THEN SubSeq(appended, 1, HistoryWindow)
                   ELSE appended
    IN  [prog EXCEPT ![category] =
            DictSet(category_stats, korean_word, [history |-> trimmed])]

record_outcome_replace_stats(prog, category, is_correct, korean_word) ==
    LET category_stats == prog[category]
        record == IF korean_word \in DOMAIN category_stats
                  THEN category_stats[korean_word]
                  ELSE [history |-> <<>>]
        appended == Append(record.history, IF is_correct THEN 1 ELSE 0)
        trimmed == IF Len(appended) > HistoryWindow
                   THEN SubSeq(appended, Len(appended) - HistoryWindow + 1,
                               Len(appended))
                   ELSE appended
    IN  [prog EXCEPT ![category] =
            DictSet(EmptyStats, korean_word, [history |-> trimmed])]

record_outcome(prog, category, is_correct, korean_word) ==
    LET category_stats == prog[category]
        record == IF korean_word \in DOMAIN category_stats
                  THEN category_stats[korean_word]
                  ELSE [history |-> <<>>]
        appended == Append(record.history, IF is_correct THEN 1 ELSE 0)
        trimmed == IF Len(appended) > HistoryWindow
                   THEN SubSeq(appended, Len(appended) - HistoryWindow + 1,
                               Len(appended))
                   ELSE appended
    IN  [prog EXCEPT ![category] =
            DictSet(category_stats, korean_word, [history |-> trimmed])]

\* handle_answer, lines 1165-1174: the streak update.  meta holds the four
\* streak fields of the application.
update_streak_no_longest(meta, is_correct, timestamp) ==
    IF is_correct
    THEN [meta EXCEPT !.streak = meta.streak + 1,
                      !.streak_timestamp = timestamp]
    ELSE [meta EXCEPT !.streak = 0, !.streak_timestamp = timestamp]

update_streak_always_longest(meta, is_correct, timestamp) ==
    IF is_correct
    THEN [streak |-> meta.streak + 1, streak_timestamp |-> timestamp,
          longest_streak |-> Max(meta.streak + 1, meta.longest_streak),
          longest_streak_timestamp |-> timestamp]
    ELSE [meta EXCEPT !.streak = 0, !.streak_timestamp = timestamp]

update_streak_reset_longest(meta, is_correct, timestamp) ==
    IF is_correct
    THEN LET current == meta.streak + 1
         IN  IF current > meta.longest_streak
             THEN [streak |-> current, streak_timestamp |-> timestamp,
                   longest_streak |-> current,
                   longest_streak_timestamp |-> timestamp]
             ELSE [meta EXCEPT !.streak = current,
                               !.streak_timestamp = timestamp]
    ELSE [meta EXCEPT !.streak = 0, !.streak_timestamp = timestamp,
                      !.longest_streak_timestamp = timestamp]

update_streak(meta, is_correct, timestamp) ==
    IF is_correct
    THEN LET current == meta.streak + 1
         IN  IF current > meta.longest_streak
             THEN [streak |-> current, streak_timestamp |-> timestamp,
                   longest_streak |-> current,
                   longest_streak_timestamp |-> timestamp]
             ELSE [meta EXCEPT !.streak = current,
                               !.streak_timestamp = timestamp]
    ELSE [meta EXCEPT !.streak = 0, !.streak_timestamp = timestamp]

\* _serialize_metadata
serialize_metadata(meta) ==
    RawMeta(JInt(meta.streak), meta.streak_timestamp,
            JInt(meta.longest_streak), meta.longest_streak_timestamp)

SavedHistory_without_oldest(h) ==
    LET bits == [i \in 1..Len(h) |-> IF h[i] # 0 THEN 1 ELSE 0]
    IN  IF bits = <<>> THEN bits ELSE Tail(bits)

\* save_progress, lines 1320-1321
SavedHistory(h) == LastWindow([i \in 1..Len(h) |-> IF h[i] # 0 THEN 1 ELSE 0])

\* The text str() makes of the object {"history": [...]} that is stored for a
\* term (load_progress, lines 197-198 and 206-208, when that object is what
\* the file has under a timestamp key): a timestamp that is none of the
\* clock's, one for every history (timestamps are numbers in this model).
RECURSIVE HistoryCode(_)
HistoryCode(h) ==
    IF h = <<>> THEN 1 ELSE 2 * HistoryCode(SubSeq(h, 1, Len(h) - 1)) + h[Len(h)]
DictStamp(h) == 4 + HistoryCode(h)

\* The terms named as the fields of the metadata (a vocabulary may hold any
\* text as a term, load_vocab lines 42-43)
MetaWords ==
    {"streak", "streak_timestamp", "longest_streak", "longest_streak_timestamp"}

\* save_progress, lines 1315-1324: the payload written to the file, for the
\* categories of the application, which are the keys of prog (self.categories
\* is list(vocabulary.keys()), line 857, and load_progress gives every one of
\* them a key).  payload[category] = ... (line 1324) replaces the metadata
\* set at line 1315 when a category is named "__meta__": the file then has
\* the stats of that category under the key.  What load_progress reads as
\* metadata from it are the entries of the terms named as the four fields:
\* an object {"history": [...]}, for which int() raises TypeError as for
\* null, and which str() makes a timestamp of.
Payload(prog, meta) ==
    LET stored(c) == {t \in DOMAIN prog[c] :
                         SavedHistory(prog[c][t].history) # <<>>}
        count(key) == IF key \in stored(MetaKey) THEN JNull ELSE JAbsent
        stamp(key) ==
            IF key \in stored(MetaKey)
            THEN DictStamp(SavedHistory(prog[MetaKey][key].history))
            ELSE 0
    IN  ObjectFile(TRUE,
            IF MetaKey \in DOMAIN prog
            THEN RawMeta(count("streak"), stamp("streak_timestamp"),
                         count("longest_streak"),
                         stamp("longest_streak_timestamp"))
            ELSE serialize_metadata(meta),
            [c \in DOMAIN prog |->
                RawCategory(TRUE,
                    [t \in stored(c) |->
                        LET h == SavedHistory(prog[c][t].history)
                        IN  RawHistory([i \in 1..Len(h) |-> JInt(h[i])])])])

\* The outcomes of one write: "ok"; "open_failed" (open raises OSError, the
\* file is untouched); "write_failed" (the file was opened for writing, which
\* empties it, and an OSError is raised before the text is complete);
\* "write_cut" (the same, and the bytes written end inside a multi-byte
\* character: the text is written as UTF-8 with ensure_ascii=False and the
\* terms are Korean).
WriteOutcomes == {"ok", "open_failed", "write_failed", "write_cut"}

\* A text json.load returns for the escape \ud83d, a lone surrogate: the
\* UTF-8 codec of the file save_progress writes cannot encode it.
LoneSurrogate == "\\ud83d"
Encodable(text) == text # LoneSurrogate

\* A timestamp of the file that is such a text (timestamps are numbers in
\* this model, 0 for the empty text); load_progress keeps the timestamps of
\* the file as they are (lines 197-209).
SurrogateStamp == -1

\* json.dump(payload, handle, ensure_ascii=False) on a file opened with
\* encoding="utf-8": every text of the payload can be encoded, which are the
\* names of the categories, the terms stored and, unless a category named
\* "__meta__" has replaced the metadata, the two timestamps
CanEncode(prog, meta) ==
    /\ \A c \in DOMAIN prog :
           /\ Encodable(c)
           /\ \A t \in DOMAIN prog[c] :
                  SavedHistory(prog[c][t].history) # <<>> => Encodable(t)
    /\ MetaKey \notin DOMAIN prog =>
           /\ meta.streak_timestamp # SurrogateStamp
           /\ meta.longest_streak_timestamp # SurrogateStamp

\* the names of categories and the terms answers are given for
AllCategories == Categories \cup {MetaKey, LoneSurrogate}
AnswerTerms == Terms \cup {LoneSurrogate} \cup MetaWords

\* what save_progress does with a write: the outcome of WriteOutcomes the
\* file system gives, except that on a file system that takes every byte
\* json.dump raises UnicodeEncodeError when a text cannot be encoded; the
\* text before it has been written
EncodeFailed == "encode_failed"
SaveOutcome(prog, meta, write) ==
    IF write = "ok" /\ ~CanEncode(prog, meta) THEN EncodeFailed ELSE write

\* the file a write leaves when it does not succeed
FailedWrite(file, write) ==
    IF write = "open_failed" THEN file
    ELSE IF write = "write_cut" THEN CutCharacterFile
    ELSE TruncatedFile

save_progress_no_reset(prog, meta, reported, file, write) ==
    IF SaveOutcome(prog, meta, write) = "ok"
    THEN [disk |-> Payload(prog, meta), save_error_reported |-> reported,
          warned |-> FALSE, raised |-> FALSE]
    ELSE IF SaveOutcome(prog, meta, write) = EncodeFailed
    THEN [disk |-> TruncatedFile, save_error_reported |-> reported,
          warned |-> FALSE, raised |-> TRUE]
    ELSE [disk |-> FailedWrite(file, write),
          save_error_reported |-> reported,
          warned |-> ~reported, raised |-> FALSE]

\* save_progress, lines 1313-1334, up to the point where it returns or, on
\* the first failure of an episode, calls messagebox.showwarning (warned):
\* the warning is modal, Tk runs its event loop until the user closes it, and
\* only then line 1332 sets save_error_reported.  The except clause names
\* OSError only: a UnicodeEncodeError leaves save_progress (raised) with the
\* file opened and cut, no warning and the flag as it was.
save_progress(prog, meta, reported, file, write) ==
    IF SaveOutcome(prog, meta, write) = "ok"
    THEN [disk |-> Payload(prog, meta), save_error_reported |-> FALSE,
          warned |-> FALSE, raised |-> FALSE]
    ELSE IF SaveOutcome(prog, meta, write) = EncodeFailed
    THEN [disk |-> TruncatedFile, save_error_reported |-> reported,
          warned |-> FALSE, raised |-> TRUE]
    ELSE [disk |-> FailedWrite(file, write),
          save_error_reported |-> reported,
          warned |-> ~reported, raised |-> FALSE]

Metadata == [streak |-> current_streak, streak_timestamp |-> streak_timestamp,
             longest_streak |-> longest_streak,
             longest_streak_timestamp |-> longest_streak_timestamp]

Event(op, category, korean_word, is_correct, timestamp, write, warned) ==
    [op |-> op, category |-> category, korean |-> korean_word,
     is_correct |-> is_correct, timestamp |-> timestamp, write |-> write,
     warned |-> warned]
NoEvent == Event("start", "", "", FALSE, 0, "", FALSE)

\* an entry of the list of handled answer events
Handled(category, korean_word, is_correct, write, warned) ==
    [category |-> category, korean |-> korean_word, is_correct |-> is_correct,
     write |-> write, warned |-> warned]

RECURSIVE SumLen(_, _)
SumLen(f, keys) ==
    IF keys = {} THEN 0
    ELSE LET k == CHOOSE x \in keys : TRUE
         IN  Len(f[k]) + SumLen(f, keys \ {k})
\* the number of answers handled so far
AnswerCount ==
    LET keys == AllCategories \X AnswerTerms
        flat == [k \in keys |-> log[k[1]][k[2]]]
    IN  SumLen(flat, keys)

handle_answer_save_first(category, is_correct, korean_word, timestamp, write) ==
    LET prog == record_outcome(progress, category, is_correct, korean_word)
        meta == update_streak(Metadata, is_correct, timestamp)
        saved == save_progress(progress, Metadata, save_error_reported, disk, write)
    IN  /\ progress' = prog
        /\ current_streak' = meta.streak
        /\ streak_timestamp' = meta.streak_timestamp
        /\ longest_streak' = meta.longest_streak
        /\ longest_streak_timestamp' = meta.longest_streak_timestamp
        /\ disk' = saved.disk
        /\ save_error_reported' = saved.save_error_reported
        /\ dialog' = saved.warned
        /\ event' = Event("answer", category, korean_word, is_correct,
                          timestamp, SaveOutcome(progress, Metadata, write), saved.warned)
        /\ log' = [log EXCEPT ![category][korean_word] =
                      Append(@, IF is_correct THEN 1 ELSE 0)]
        /\ handled' = Append(handled, Handled(category, korean_word, is_correct,
                                              SaveOutcome(progress, Metadata, write),
                                              saved.warned))

handle_answer_rollback(category, is_correct, korean_word, timestamp, write) ==
    LET prog == record_outcome(progress, category, is_correct, korean_word)
        meta == update_streak(Metadata, is_correct, timestamp)
        saved == save_progress(prog, meta, save_error_reported, disk, write)
    IN  /\ progress' = IF SaveOutcome(prog, meta, write) = "ok" THEN prog ELSE progress
        /\ current_streak' = meta.streak
        /\ streak_timestamp' = meta.streak_timestamp
        /\ longest_streak' = meta.longest_streak
        /\ longest_streak_timestamp' = meta.longest_streak_timestamp
        /\ disk' = saved.disk
        /\ save_error_reported' = saved.save_error_reported
        /\ dialog' = saved.warned
        /\ event' = Event("answer", category, korean_word, is_correct,
                          timestamp, SaveOutcome(prog, meta, write), saved.warned)
        /\ log' = [log EXCEPT ![category][korean_word] =
                      Append(@, IF is_correct THEN 1 ELSE 0)]
        /\ handled' = Append(handled, Handled(category, korean_word, is_correct,
                                              SaveOutcome(prog, meta, write),
                                              saved.warned))

\* QuizApp.handle_answer(category, is_correct, korean_word), with the clock
\* reading and the outcome of the write as further inputs
handle_answer(category, is_correct, korean_word, timestamp, write) ==
    LET prog == record_outcome(progress, category, is_correct, korean_word)
        meta == update_streak(Metadata, is_correct, timestamp)
        saved == save_progress(prog, meta, save_error_reported, disk, write)
    IN  /\ progress' = prog
        /\ current_streak' = meta.streak
        /\ streak_timestamp' = meta.streak_timestamp
        /\ longest_streak' = meta.longest_streak
        /\ longest_streak_timestamp' = meta.longest_streak_timestamp
        /\ disk' = saved.disk
        /\ save_error_reported' = saved.save_error_reported
        /\ dialog' = saved.warned
        /\ event' = Event("answer", category, korean_word, is_correct,
                          timestamp, SaveOutcome(prog, meta, write), saved.warned)
        /\ log' = [log EXCEPT ![category][korean_word] =
                      Append(@, IF is_correct THEN 1 ELSE 0)]
        /\ handled' = Append(handled, Handled(category, korean_word, is_correct,
                                              SaveOutcome(prog, meta, write),
                                              saved.warned))

\* handle_answer raises: the exception save_progress does not catch leaves
\* it after the history and the streak were changed (lines 1157-1176)
handle_answer_raises(category, is_correct, korean_word, timestamp, write) ==
    SaveOutcome(record_outcome(progress, category, is_correct, korean_word),
                update_streak(Metadata, is_correct, timestamp),
                write) = EncodeFailed

(***************************************************************************)
(* QuestionCard and the handlers of QuizApp that reload the cards          *)
(*  - source: the category whose pool the current question was built from. *)
(*  - pending: the number of timers set by frame.after(1500,                *)
(*    self.load_question) that have not fired yet.                         *)
(*  - reported: the number of answers reported for the current question   *)
(*    (a history field).                                                   *)
(*  - in_submit: "no", or the value of is_correct of a call of submit or    *)
(*    submit_text that waits in _handle_result for handle_answer to        *)
(*    return, which takes time only while the warning of save_progress is  *)
(*    open.                                                                *)
(***************************************************************************)
Panels == {"p1", "p2"}
AnswerModes == {"choice", "type"}

CorrectFeedback == "Correct!"
WrongFeedback == "Correct answer: ..."
BlankFeedback == "Please type an answer before submitting."

\* QuestionCard.__init__ followed by its first load_question
NewCard(category, korean) ==
    [category |-> category, korean |-> korean, source |-> category,
     active |-> TRUE, pending |-> 0, answer_mode |-> "choice",
     all_categories |-> Categories, reported |-> 0, feedback |-> "",
     in_submit |-> "no"]

\* the fields of QuizApp other than progress
appkeep == <<current_streak, longest_streak, streak_timestamp,
             longest_streak_timestamp, save_error_reported, dialog, disk, event,
             log, handled>>

generate_question_reset(prog, category) ==
    DictSet(prog, category, EmptyStats)

\* QuizApp.generate_question: self.progress.setdefault(category, {})
generate_question(prog, category) ==
    IF category \in DOMAIN prog THEN prog ELSE DictSet(prog, category, EmptyStats)

\* generate_question called once for each of some categories
RECURSIVE GenerateEach(_, _)
GenerateEach(prog, categories) ==
    IF categories = {} THEN prog
    ELSE LET c == CHOOSE c \in categories : TRUE
         IN  GenerateEach(generate_question(prog, c), categories \ {c})

rotate_category_any(category, all_categories) ==
    IF all_categories # {} THEN all_categories ELSE {category}

\* _rotate_category: the categories random.choice may return
rotate_category(category, all_categories) ==
    LET choices == all_categories \ {category}
    IN  IF choices # {} THEN choices ELSE {category}

\* load_question, for pools that satisfy the conditions of load_vocab:
\* build_question may select any item of the pool of the card's category,
\* korean is the one it selects
load_question(card, korean) ==
    [card EXCEPT !.korean = korean, !.source = card.category, !.active = TRUE,
                 !.reported = 0, !.feedback = ""]

set_categories_no_reload(card, categories, chosen, korean) ==
    IF categories = {} THEN card
    ELSE [card EXCEPT !.all_categories = categories,
                      !.category = IF @ \in categories THEN @ ELSE chosen]

\* set_categories; chosen is what random.choice returns
set_categories(card, categories, chosen, korean) ==
    IF categories = {} THEN card
    ELSE load_question(
             [card EXCEPT !.all_categories = categories,
                          !.category = IF @ \in categories THEN @ ELSE chosen],
             korean)

\* set_answer_mode
set_answer_mode(card, answer_mode, korean) ==
    IF answer_mode \notin AnswerModes \/ answer_mode = card.answer_mode THEN card
    ELSE load_question([card EXCEPT !.answer_mode = answer_mode], korean)

\* what submit and submit_text do after _handle_result has returned: the
\* feedback, self.active = False and _queue_next_question, where
\* _rotate_category makes next the category
after_result(card, is_correct, next) ==
    [card EXCEPT !.category = next, !.active = FALSE, !.pending = @ + 1,
                 !.feedback = IF is_correct THEN CorrectFeedback ELSE WrongFeedback,
                 !.in_submit = "no"]

\* what submit and submit_text do once they accept an answer: _handle_result
\* and, when handle_answer returns without showing the warning, the rest.
\* When handle_answer raises, the exception leaves _handle_result and submit
\* (Tk reports it and goes on): the statements after line 775, self.active =
\* False and _queue_next_question among them, are not run.
handle_result(panel, is_correct, timestamp, write) ==
    /\ handle_answer(cards[panel].category, is_correct, cards[panel].korean,
                     timestamp, write)
    /\ IF dialog'
       THEN cards' = [cards EXCEPT ![panel].reported = @ + 1,
                                   ![panel].in_submit =
                                       IF is_correct THEN "correct" ELSE "wrong"]
       ELSE IF handle_answer_raises(cards[panel].category, is_correct,
                                    cards[panel].korean, timestamp, write)
       THEN cards' = [cards EXCEPT ![panel].reported = @ + 1]
       ELSE \E next \in rotate_category(cards[panel].category,
                                        cards[panel].all_categories) :
                cards' = [cards EXCEPT ![panel] =
                             after_result([@ EXCEPT !.reported = @ + 1],
                                          is_correct, next)]

\* the user closes the warning: save_progress sets save_error_reported and
\* returns, handle_answer returns, and the submit that called it, if a card
\* did, goes on after _handle_result
showwarning_returns ==
    /\ dialog
    /\ dialog' = FALSE
    /\ save_error_reported' = TRUE
    /\ \E next \in [DOMAIN cards -> Categories] :
           /\ \A p \in DOMAIN cards :
                  next[p] \in IF cards[p].in_submit = "no" THEN {cards[p].category}
                              ELSE rotate_category(cards[p].category,
                                                   cards[p].all_categories)
           /\ cards' = [p \in DOMAIN cards |->
                            IF cards[p].in_submit = "no" THEN cards[p]
                            ELSE after_result(cards[p], cards[p].in_submit = "correct",
                                              next[p])]
    /\ UNCHANGED <<progress, current_streak, longest_streak, streak_timestamp,
                   longest_streak_timestamp, disk, event, log, handled>>

submit_unguarded(panel, is_correct, timestamp, write) ==
    IF cards[panel].answer_mode # "choice"
    THEN UNCHANGED <<appvars, cards>>
    ELSE handle_result(panel, is_correct, timestamp, write)

\* submit, with the correctness of the chosen option, the clock reading and
\* the outcome of the write as inputs
submit(panel, is_correct, timestamp, write) ==
    IF cards[panel].answer_mode # "choice" \/ ~cards[panel].active
    THEN UNCHANGED <<appvars, cards>>
    ELSE handle_result(panel, is_correct, timestamp, write)

\* submit_text; blank: the typed text is empty after strip()
submit_text(panel, blank, is_correct, timestamp, write) ==
    IF cards[panel].answer_mode # "type" \/ ~cards[panel].active
    THEN UNCHANGED <<appvars, cards>>
    ELSE IF blank
    THEN /\ cards' = [cards EXCEPT ![panel].feedback = BlankFeedback]
         /\ UNCHANGED appvars
    ELSE handle_result(panel, is_correct, timestamp, write)

\* the timer set by _queue_next_question fires and calls load_question
timer_load_question(panel) ==
    /\ cards[panel].pending > 0
    /\ \E korean \in Terms :
           cards' = [cards EXCEPT ![panel] =
                        load_question([@ EXCEPT !.pending = @ - 1], korean)]
    /\ progress' = generate_question(progress, cards[panel].category)
    /\ UNCHANGED appkeep

\* _handle_direction_change, with the value of the radio button
handle_direction_change(new_direction) ==
    IF new_direction = direction
    THEN UNCHANGED <<appvars, cards, direction>>
    ELSE /\ direction' = new_direction
         /\ \E korean \in [Panels -> Terms] :
                cards' = [p \in Panels |-> load_question(cards[p], korean[p])]
         /\ progress' = GenerateEach(progress, {cards[p].category : p \in Panels})
         /\ UNCHANGED appkeep

\* _handle_answer_mode_change, with the value of the radio button; the mode
\* of QuizApp is the one its cards have
handle_answer_mode_change(answer_mode) ==
    IF \A p \in Panels : answer_mode = cards[p].answer_mode
    THEN UNCHANGED <<appvars, cards>>
    ELSE /\ \E korean \in [Panels -> Terms] :
                cards' = [p \in Panels |->
                             set_answer_mode(cards[p], answer_mode, korean[p])]
         /\ progress' = GenerateEach(progress, {cards[p].category : p \in Panels})
         /\ UNCHANGED appkeep

\* _apply_section_selection, with the set of ticked sections
apply_section_selection(selection) ==
    IF selection = {}
    THEN UNCHANGED <<appvars, cards>>
    ELSE /\ \E chosen \in [Panels -> selection], korean \in [Panels -> Terms] :
                \* random.choice is called only for a card whose category is
                \* not in the selection
                /\ \A p \in Panels :
                       cards[p].category \in selection => chosen[p] = cards[p].category
                /\ cards' = [p \in Panels |->
                                 set_categories(cards[p], selection, chosen[p],
                                                korean[p])]
         /\ progress' = GenerateEach(progress, {cards'[p].category : p \in Panels})
         /\ UNCHANGED appkeep

\* no cards
NoCards == [panel \in {} |-> NewCard("", "")]
CardsIdle == cards = NoCards

\* the variables of a call of load_progress, unused
NoLoad == [status |-> "none", progress |-> <<>>, metadata |-> DefaultMetadata]
LoadIdle ==
    /\ requested = {}
    /\ load_result = NoLoad

(***************************************************************************)
(* load_vocab, applied to the list that json.load returned                 *)
(*  - A field of an entry is a record [t, text]: the JSON type of its      *)
(*    value and the text that str() makes of it.                           *)
(***************************************************************************)
VString(s) == [t |-> "str", text |-> s]
\* the JSON number 7, for which str() gives "7"
VNumber == [t |-> "int", text |-> "7"]
\* JSON null, for which str() gives "None"
VNull == [t |-> "null", text |-> "None"]
\* the key is not in the object: item[key] raises KeyError
VMissing == [t |-> "absent", text |-> ""]

str(value) == value.text

\* an element of the list: an object with its two fields, or something else
Entry(isdict, korean, english) ==
    [isdict |-> isdict, korean |-> korean, english |-> english]
NotAnObject == Entry(FALSE, VMissing, VMissing)

InvalidEntryMessage == "contains an invalid entry (expected an object)."
MissingKeyMessage == "entries must include 'korean' and 'english'."
TooFewEntriesMessage == "must contain at least four entries."
TooFewTranslationsMessage ==
    "must contain at least four unique English translations."
TooFewTermsMessage == "must contain at least four unique Korean entries."

Loaded(pairs) == [status |-> "ok", message |-> "", pairs |-> pairs]
VocabError(message) == [status |-> "ValueError", message |-> message, pairs |-> <<>>]
NoVocabulary == [status |-> "none", message |-> "", pairs |-> <<>>]

\* the entries on which the loop of lines 38-46 raises
Unreadable(items) ==
    {i \in 1..Len(items) : \/ ~items[i].isdict
                           \/ items[i].korean.t = "absent"
                           \/ items[i].english.t = "absent"}

\* the list the loop of lines 38-46 builds when it raises nothing
Pairs(items) ==
    [i \in 1..Len(items) |-> <<str(items[i].korean), str(items[i].english)>>]

load_vocab_terms_first(items) ==
    IF Unreadable(items) # {}
    THEN LET first == CHOOSE i \in Unreadable(items) :
                          \A j \in Unreadable(items) : i <= j
         IN  IF ~items[first].isdict THEN VocabError(InvalidEntryMessage)
             ELSE VocabError(MissingKeyMessage)
    ELSE LET pairs == Pairs(items)
         IN  IF Len(pairs) < MinEntries THEN VocabError(TooFewEntriesMessage)
             ELSE IF Cardinality({pairs[i][1] : i \in 1..Len(pairs)}) < MinEntries
                  THEN VocabError(TooFewTermsMessage)
             ELSE IF Cardinality({pairs[i][2] : i \in 1..Len(pairs)}) < MinEntries
                  THEN VocabError(TooFewTranslationsMessage)
             ELSE Loaded(pairs)

load_vocab_reversed(items) ==
    IF Unreadable(items) # {}
    THEN LET first == CHOOSE i \in Unreadable(items) :
                          \A j \in Unreadable(items) : i <= j
         IN  IF ~items[first].isdict THEN VocabError(InvalidEntryMessage)
             ELSE VocabError(MissingKeyMessage)
    ELSE LET pairs == Pairs(items)
         IN  IF Len(pairs) < MinEntries THEN VocabError(TooFewEntriesMessage)
             ELSE IF Cardinality({pairs[i][2] : i \in 1..Len(pairs)}) < MinEntries
                  THEN VocabError(TooFewTranslationsMessage)
             ELSE IF Cardinality({pairs[i][1] : i \in 1..Len(pairs)}) < MinEntries
                  THEN VocabError(TooFewTermsMessage)
             ELSE Loaded([i \in 1..Len(pairs) |-> pairs[Len(pairs) + 1 - i]])

load_vocab(items) ==
    IF Unreadable(items) # {}
    THEN LET first == CHOOSE i \in Unreadable(items) :
                          \A j \in Unreadable(items) : i <= j
         IN  IF ~items[first].isdict THEN VocabError(InvalidEntryMessage)
             ELSE VocabError(MissingKeyMessage)
    ELSE LET pairs == Pairs(items)
         IN  IF Len(pairs) < MinEntries THEN VocabError(TooFewEntriesMessage)
             ELSE IF Cardinality({pairs[i][2] : i \in 1..Len(pairs)}) < MinEntries
                  THEN VocabError(TooFewTranslationsMessage)
             ELSE IF Cardinality({pairs[i][1] : i \in 1..Len(pairs)}) < MinEntries
                  THEN VocabError(TooFewTermsMessage)
             ELSE Loaded(pairs)

\* the variables of a call of load_vocab, unused
VocabIdle ==
    /\ raw_items = <<>>
    /\ loaded_vocabulary = NoVocabulary

(***************************************************************************)
(* Start-up: main() loads the progress file and constructs QuizApp         *)
(***************************************************************************)
SampleMetas ==
    { <<FALSE, NoMeta>>,
      <<TRUE, RawMeta(JInt(2), 1, JInt(0), 0)>>,
      <<TRUE, RawMeta(JNumStr(1), 1, JInt(3), 2)>>,
      <<TRUE, RawMeta(JInt(-1), 0, JText, 1)>> }

LongItems ==
    <<JInt(0), JInt(1), JText, JBool(TRUE), JInt(0), JInt(2), JBool(FALSE),
      JInt(1), JFloat(1), JInt(1), JInt(0), JInt(1), JNull, JInt(1), JInt(1)>>
NineItems ==
    <<JInt(1), JInt(0), JInt(1), JInt(1), JInt(0), JInt(1), JInt(1), JInt(1),
      JBool(TRUE)>>

SampleCategories ==
    { NoCategories,
      [c \in Categories |->
          IF c = "c1"
          THEN RawCategory(TRUE,
                   [t \in {"t1", "t2"} |->
                       IF t = "t1" THEN RawHistory(LongItems)
                       ELSE RawAggregate(JInt(12), JInt(3))])
          ELSE RawCategory(FALSE, NoRecords)],
      [c \in Categories |->
          IF c = "c1"
          THEN RawCategory(TRUE, [t \in {"t1"} |-> RawList(NineItems)])
          ELSE RawCategory(TRUE,
                   [t \in {"t1", "t2"} |->
                       IF t = "t1" THEN RawHistory(<<>>)
                       ELSE RawAggregate(JNumStr(2), JFloat(5))])] }

\* the file with the records of the terms given and, in c1, one correct
\* outcome for a term that is a lone surrogate
WithSurrogate(file) ==
    [file EXCEPT !.cats["c1"].recs =
        [t \in DOMAIN @ \cup {LoneSurrogate} |->
            IF t = LoneSurrogate THEN RawHistory(<<JInt(1)>>) ELSE @[t]]]
SurrogateFile == WithSurrogate(ObjectFile(FALSE, NoMeta, NoCategories))

\* a file whose timestamps cannot be encoded: an answer replaces that of the
\* streak (lines 1168, 1174), and every save raises until a correct answer
\* replaces that of the longest streak (line 1171)
SurrogateStampFile ==
    ObjectFile(TRUE, RawMeta(JInt(0), SurrogateStamp, JInt(0), SurrogateStamp),
               NoCategories)

\* the progress files the application may be started on
ProgressFiles ==
    {MissingFile, TruncatedFile, NotAnObjectFile, SurrogateFile,
     SurrogateStampFile}
    \cup {ObjectFile(m[1], m[2], cats) : m \in SampleMetas, cats \in SampleCategories}

NoLog == [c \in AllCategories |-> [t \in AnswerTerms |-> <<>>]]

\* main(), lines 1381-1387, and QuizApp.__init__, lines 853-872: the
\* application starts only when load_progress raises nothing
StartAppOn(file, categories) ==
    LET loaded == load_progress(file, categories)
    IN  /\ loaded.status = "ok"
        /\ progress = loaded.progress
        /\ current_streak = loaded.metadata.streak
        /\ longest_streak = loaded.metadata.longest_streak
        /\ streak_timestamp = loaded.metadata.streak_timestamp
        /\ longest_streak_timestamp = loaded.metadata.longest_streak_timestamp
        /\ save_error_reported = FALSE
        /\ dialog = FALSE
        /\ disk = file
        /\ event = NoEvent
        /\ log = NoLog
        /\ handled = <<>>

StartApp(file) == StartAppOn(file, Categories)

\* Catalogs with a category named as the key of the metadata, and with one
\* whose name is a lone surrogate (load_category_catalog, lines 296-338,
\* takes every name that is not blank), and files to start them on
OddCatalogs == {{"c1", MetaKey}, {"c1", LoneSurrogate}}
\* the file a session with the category "__meta__" has written after an
\* answer for the term "streak_timestamp"
MetaWordFile ==
    Payload([c \in {"c1", MetaKey} |->
                IF c = MetaKey
                THEN [t \in {"streak_timestamp"} |-> [history |-> <<1>>]]
                ELSE EmptyStats],
            DefaultMetadata)
OddFiles ==
    {MissingFile, SurrogateStampFile, MetaWordFile,
     ObjectFile(TRUE, RawMeta(JInt(2), 1, JInt(2), 1), NoCategories)}

\* the variables of a call of build_question and of compute_weight, unused
NoPool == <<>>
NoQuestion ==
    [status |-> "none", prompt |-> "", options |-> <<>>, answer |-> "",
     korean |-> ""]
QuestionIdle ==
    /\ pool = NoPool
    /\ stats = EmptyStats
    /\ direction = "ko-en"
    /\ selected = 0
    /\ question = NoQuestion
\* weight = -1: compute_weight has not returned
WeightIdle ==
    /\ history = <<>>
    /\ weight = -1

Init ==
    /\ \/ \E file \in ProgressFiles : StartApp(file)
       \/ \E file \in OddFiles, categories \in OddCatalogs :
              StartAppOn(file, categories)
    /\ QuestionIdle
    /\ WeightIdle
    /\ VocabIdle
    /\ CardsIdle
    /\ LoadIdle
    /\ mode = "fresh"

\* The warning is modal: while it is open the window takes no clicks and no
\* keys, so no answer and no change of a control is handled; timers that are
\* due still fire.
CloseWarning ==
    /\ showwarning_returns
    /\ UNCHANGED <<qvars, wvars, vvars, lvars, mode>>

HandleAnswer ==
    /\ ~dialog
    /\ AnswerCount < MaxAnswers
    /\ \E category \in DOMAIN progress, is_correct \in BOOLEAN,
          timestamp \in Times, write \in WriteOutcomes :
           \E korean_word \in IF category = MetaKey THEN Terms \cup MetaWords
                                                     ELSE Terms :
               handle_answer(category, is_correct, korean_word, timestamp,
                             write)
    /\ UNCHANGED <<qvars, wvars, vvars, cvars, lvars, mode>>

Next == HandleAnswer \/ CloseWarning

Spec == Init /\ [][Next]_vars

(***************************************************************************)
(* A session that starts without a progress file and in which one term is  *)
(* answered again and again, every write succeeding                        *)
(***************************************************************************)
RecordCategory == "c1"
RecordTerm == "t1"

RecordInit ==
    /\ StartApp(MissingFile)
    /\ QuestionIdle
    /\ WeightIdle
    /\ VocabIdle
    /\ CardsIdle
    /\ LoadIdle
    /\ mode = "fresh"

RecordAnswer ==
    /\ AnswerCount < MaxRecords
    /\ \E is_correct \in BOOLEAN, timestamp \in Times :
           handle_answer(RecordCategory, is_correct, RecordTerm, timestamp, "ok")
    /\ UNCHANGED <<qvars, wvars, vvars, cvars, lvars, mode>>

RecordNext == RecordAnswer

SpecRecord == RecordInit /\ [][RecordNext]_vars

(***************************************************************************)
(* A session that starts without a progress file, or on one with a         *)
(* timestamp that cannot be encoded, and in which one term is answered,    *)
(* every write succeeding or failing, and with it a term of the vocabulary *)
(* that is a lone surrogate (load_vocab takes every text)                  *)
(***************************************************************************)
SaveInit ==
    /\ \E file \in {MissingFile, SurrogateStampFile} : StartApp(file)
    /\ QuestionIdle
    /\ WeightIdle
    /\ VocabIdle
    /\ CardsIdle
    /\ LoadIdle
    /\ mode = "fresh"

SaveAnswer ==
    /\ ~dialog
    /\ AnswerCount < MaxSaves
    /\ \E is_correct \in BOOLEAN, timestamp \in Times, write \in WriteOutcomes,
          korean_word \in {RecordTerm, LoneSurrogate} :
           handle_answer(RecordCategory, is_correct, korean_word, timestamp, write)
    /\ UNCHANGED <<qvars, wvars, vvars, cvars, lvars, mode>>

SaveNext == SaveAnswer \/ CloseWarning

SpecSave == SaveInit /\ [][SaveNext]_vars

(***************************************************************************)
(* Cards that report answers in any order to one QuizApp, which starts on  *)
(* a file with a history of nine outcomes for one term, with or without an *)
(* entry for a term that cannot be encoded                                 *)
(***************************************************************************)
PanelFile ==
    ObjectFile(FALSE, NoMeta,
        [c \in Categories |->
            IF c = "c1"
            THEN RawCategory(TRUE, [t \in {"t1"} |-> RawHistory(NineItems)])
            ELSE RawCategory(TRUE, NoRecords)])

\* the same file with a term that is a lone surrogate
SurrogatePanelFile == WithSurrogate(PanelFile)
\* the same file with the metadata of SurrogateStampFile
StampPanelFile ==
    [PanelFile EXCEPT !.hasmeta = TRUE, !.meta = SurrogateStampFile.meta]
PanelFiles == {PanelFile, SurrogatePanelFile, StampPanelFile}

\* datetime.now(): these answers are all given within one minute
Now == 1

PanelInit ==
    /\ \E file \in PanelFiles : StartApp(file)
    /\ QuestionIdle
    /\ WeightIdle
    /\ VocabIdle
    /\ mode = "fresh"
    /\ cards \in [Panels -> {NewCard(c, t) : c \in Categories, t \in Terms}]
    /\ LoadIdle

Submit ==
    /\ ~dialog
    /\ AnswerCount < MaxEvents
    /\ \E panel \in Panels, is_correct \in BOOLEAN, write \in {"ok", "write_failed"} :
           submit(panel, is_correct, Now, write)
    /\ UNCHANGED <<qvars, wvars, vvars, lvars, mode>>

ReloadTimer(panel) ==
    /\ timer_load_question(panel)
    /\ UNCHANGED <<qvars, wvars, vvars, lvars, mode>>

LoadQuestion == \E panel \in Panels : ReloadTimer(panel)

PanelNext == Submit \/ LoadQuestion \/ CloseWarning

SpecPanels == PanelInit /\ [][PanelNext]_vars

(***************************************************************************)
(* The window with its controls: two cards, the answer buttons and entry   *)
(* fields, the reload timers, the direction and answer-mode radio buttons  *)
(* and the section selection.  Tk runs one callback at a time, so each     *)
(* callback is one step.                                                   *)
(***************************************************************************)
MaxReports == 2

\* In this specification the option clicked is the right one and the text
\* typed is a wrong one; the write of a typed answer succeeds.
ChoiceAnswer ==
    /\ ~dialog
    /\ AnswerCount < MaxReports
    /\ \E panel \in Panels, write \in {"ok", "write_failed"} :
           submit(panel, TRUE, Now, write)
    /\ UNCHANGED <<qvars, wvars, vvars, lvars, mode>>

TypedAnswer ==
    /\ ~dialog
    /\ AnswerCount < MaxReports
    /\ \E panel \in Panels, blank \in BOOLEAN :
           submit_text(panel, blank, FALSE, Now, "ok")
    /\ UNCHANGED <<qvars, wvars, vvars, lvars, mode>>

DirectionChange ==
    /\ ~dialog
    /\ \E new_direction \in Directions : handle_direction_change(new_direction)
    /\ UNCHANGED <<pool, stats, selected, question, wvars, vvars, lvars, mode>>

AnswerModeChange ==
    /\ ~dialog
    /\ \E answer_mode \in AnswerModes : handle_answer_mode_change(answer_mode)
    /\ UNCHANGED <<qvars, wvars, vvars, lvars, mode>>

ApplySections ==
    /\ ~dialog
    /\ \E selection \in SUBSET Categories : apply_section_selection(selection)
    /\ UNCHANGED <<qvars, wvars, vvars, lvars, mode>>

CardsNext ==
    \/ ChoiceAnswer
    \/ TypedAnswer
    \/ LoadQuestion
    \/ DirectionChange
    \/ AnswerModeChange
    \/ ApplySections
    \/ CloseWarning

SpecCards == PanelInit /\ [][CardsNext]_vars

\* the event loop runs every timer that is due, and a save warning that is
\* open is closed by the user (until then the submit that opened it has not
\* returned and has set no timer)
SpecCardsFair ==
    /\ SpecCards
    /\ \A panel \in Panels : WF_vars(ReloadTimer(panel))
    /\ WF_vars(CloseWarning)

(***************************************************************************)
(* One call of load_progress on a file and a list of categories            *)
(***************************************************************************)
\* the values of "attempts" and "correct"
CountValues ==
    {JInt(n) : n \in -1..MaxCount}
    \cup {JNumStr(3), JFloat(2), JNaN, JInf, JBool(TRUE), JText, JNull, JAbsent}

\* the lists of a "history" or of a bare list
ItemLists ==
    { <<>>, <<JText, JNull, JFloat(1)>>, <<JInt(0)>>, <<JBool(TRUE), JInt(0), JText>>,
      NineItems, [i \in 1..HistoryWindow |-> JInt(1)] \o <<JInt(0)>>, LongItems }

RecordSamples ==
    {RawAggregate(attempts, correct) : attempts \in CountValues, correct \in CountValues}
    \cup {RawHistory(items) : items \in ItemLists}
    \cup {RawList(items) : items \in ItemLists}
    \cup {RawOther}

\* the files: any record for t1 of c1, with or without a second term, and
\* c2 absent, not an object or holding a legacy aggregate
LoadFiles ==
    {MissingFile, TruncatedFile, CutCharacterFile, NotAnObjectFile, SurrogateFile}
    \cup {ObjectFile(m[1], m[2],
              [c \in Categories |->
                  IF c = "c1"
                  THEN RawCategory(TRUE,
                           [t \in {"t1"} \cup second |->
                               IF t = "t1" THEN first ELSE RawList(<<JInt(1)>>)])
                  ELSE other]) :
            m \in SampleMetas \cup { <<TRUE, RawMeta(JNaN, 1, JInt(2), 0)>>,
                                     <<TRUE, RawMeta(JInt(1), 0, JInf, 0)>> },
            first \in RecordSamples, second \in {{}, {"t2"}},
            other \in { RawCategory(TRUE, NoRecords), RawCategory(FALSE, NoRecords),
                        RawCategory(TRUE,
                            [t \in {"t2"} |-> RawAggregate(JInt(12), JInt(3))]) }}

LoadInit ==
    /\ QuestionIdle
    /\ WeightIdle
    /\ VocabIdle
    /\ CardsIdle
    /\ mode = "fresh"
    /\ \E file \in LoadFiles :
           /\ disk = file
           /\ progress = NoCategories
           /\ current_streak = 0 /\ longest_streak = 0
           /\ streak_timestamp = 0 /\ longest_streak_timestamp = 0
           /\ save_error_reported = FALSE /\ dialog = FALSE
           /\ event = NoEvent /\ log = NoLog /\ handled = <<>>
    /\ requested \in SUBSET Categories
    /\ load_result = NoLoad

LoadProgress ==
    /\ load_result = NoLoad
    /\ load_result' = load_progress(disk, requested)
    /\ UNCHANGED <<appvars, qvars, wvars, vvars, cvars, mode, requested>>

LoadNext == LoadProgress

SpecLoad == LoadInit /\ [][LoadNext]_vars

(***************************************************************************)
(* Claims about the answer handler                                         *)
(***************************************************************************)
\* C1: in every state reachable by answer events from a progress that
\* load_progress returned, every history of every term of every category
\* has at most 10 entries, whether the saves of the answers succeeded,
\* failed or raised.
C1_HistoryAtMostWindow ==
    \A c \in DOMAIN progress :
        \A t \in DOMAIN progress[c] :
            Len(progress[c][t].history) <= HistoryWindow

\* A term whose loaded history had 9 or 10 entries has been answered twice
\* and its history holds 10 entries: the handler has trimmed it.
C1_Witness ==
    /\ event.op = "answer"
    /\ event.category = "c1"
    /\ event.korean = "t1"
    /\ Len(log["c1"]["t1"]) = 2
    /\ "t1" \in DOMAIN progress["c1"]
    /\ Len(progress["c1"]["t1"].history) = HistoryWindow

\* the last min(n, 10) entries of a sequence of n outcomes
Recent(outcomes) ==
    LET n == Len(outcomes)
    IN  [i \in 1..Min(n, HistoryWindow) |-> outcomes[n - Min(n, HistoryWindow) + i]]

\* C2: after n outcomes recorded for a term that had no entry, the term's
\* history is the last min(n, 10) outcomes in the order they were recorded;
\* there is no entry before the first outcome and one from the first outcome
\* on; after 11 outcomes the first is gone and the other 10 remain in order.
C2_HistoryIsRecentOutcomes ==
    \A c \in Categories, t \in Terms :
        LET outcomes == log[c][t]
        IN  /\ (outcomes = <<>>) <=> (t \notin DOMAIN progress[c])
            /\ outcomes # <<>> => progress[c][t].history = Recent(outcomes)
            /\ Len(outcomes) = HistoryWindow + 1 =>
                   progress[c][t].history = Tail(outcomes)

\* Eleven outcomes, a correct one followed by ten wrong ones, have been
\* recorded: the history holds the ten wrong ones.
C2_Witness ==
    /\ log[RecordCategory][RecordTerm] = <<1>> \o Zeros(HistoryWindow)
    /\ progress[RecordCategory][RecordTerm].history = Zeros(HistoryWindow)

\* C3: after any answer event longest_streak >= current_streak, whatever
\* metadata load_progress returned at start-up.
C3_LongestAtLeastCurrent ==
    event.op = "answer" => longest_streak >= current_streak

\* The file held streak 2 and longest_streak 0; one correct answer later both
\* are 3.
C3_Witness ==
    /\ event.op = "answer"
    /\ event.is_correct
    /\ AnswerCount = 1
    /\ current_streak = 3
    /\ longest_streak = 3

\* C4: a correct answer sets current_streak to its previous value plus 1 and
\* stamps streak_timestamp with the current time; longest_streak and its
\* timestamp become the new current value and the current time exactly when
\* the new current streak exceeds the previous longest, else they are
\* unchanged.
C4_CorrectAnswerStreak ==
    [][(handled' # handled /\ event'.op = "answer" /\ event'.is_correct) =>
          /\ current_streak' = current_streak + 1
          /\ streak_timestamp' = event'.timestamp
          /\ IF current_streak + 1 > longest_streak
             THEN /\ longest_streak' = current_streak + 1
                  /\ longest_streak_timestamp' = event'.timestamp
             ELSE /\ longest_streak' = longest_streak
                  /\ longest_streak_timestamp' = longest_streak_timestamp]_vars

\* A correct answer has just raised the current streak to 2 or more and the
\* longest streak with it, both stamped with the time of the answer.
C4_Witness ==
    /\ event.op = "answer"
    /\ event.is_correct
    /\ current_streak >= 2
    /\ longest_streak = current_streak
    /\ streak_timestamp = event.timestamp
    /\ longest_streak_timestamp = event.timestamp

\* C5: an incorrect answer sets current_streak to 0 and stamps
\* streak_timestamp, and leaves longest_streak and its timestamp unchanged.
C5_IncorrectAnswerStreak ==
    [][(handled' # handled /\ event'.op = "answer" /\ ~event'.is_correct) =>
          /\ current_streak' = 0
          /\ streak_timestamp' = event'.timestamp
          /\ longest_streak' = longest_streak
          /\ longest_streak_timestamp' = longest_streak_timestamp]_vars

\* An incorrect answer has reset the streak; the longest streak is positive
\* and carries an older timestamp than the answer's.
C5_Witness ==
    /\ event.op = "answer"
    /\ ~event.is_correct
    /\ current_streak = 0
    /\ streak_timestamp = event.timestamp
    /\ longest_streak > 0
    /\ longest_streak_timestamp # event.timestamp

(***************************************************************************)
(* The question builder                                                    *)
(***************************************************************************)
Range(seq) == {seq[i] : i \in 1..Len(seq)}

\* A pool is a sequence of items <<korean, english>>.
\* load_vocab, lines 48-56: the conditions under which a list is returned
ValidVocabulary(vocabulary) ==
    /\ ~(Len(vocabulary) < MinEntries)
    /\ ~(Cardinality({item[2] : item \in Range(vocabulary)}) < MinEntries)
    /\ ~(Cardinality({item[1] : item \in Range(vocabulary)}) < MinEntries)

\* random.sample(population, k): k values taken at k different positions,
\* in any order
Samples(population, k) ==
    {[i \in 1..k |-> population[f[i]]] :
        f \in {g \in [1..k -> 1..Len(population)] :
                  \A i, j \in 1..k : i # j => g[i] # g[j]}}

\* random.shuffle(options): any arrangement of the list
Shuffles(options) ==
    LET n == Len(options)
    IN  {[i \in 1..n |-> options[f[i]]] :
            f \in {g \in [1..n -> 1..n] :
                      \A i, j \in 1..n : i # j => g[i] # g[j]}}

Question(prompt, options, answer, korean) ==
    [status |-> "question", prompt |-> prompt, options |-> options,
     answer |-> answer, korean |-> korean]
\* the call raised the named exception instead of returning a Question
Raised(exception) ==
    [status |-> exception, prompt |-> "", options |-> <<>>, answer |-> "",
     korean |-> ""]

\* make_question, lines 111 and 120: the answers of the items of the pool
\* whose answer differs from the selected item's, in pool order
Distractors(pool_, item, direction_) ==
    LET field == IF direction_ = "ko-en" THEN 2 ELSE 1
        Differs(candidate) == candidate[field] # item[field]
        others == SelectSeq(pool_, Differs)
    IN  [i \in 1..Len(others) |-> others[i][field]]

\* make_question: the set of results the random draws allow
make_question(pool_, item, direction_) ==
    LET korean == item[1]
        english == item[2]
        distractors == Distractors(pool_, item, direction_)
    IN  IF Len(distractors) < NumDistractors
        THEN {Raised("ValueError")}
        ELSE IF direction_ = "ko-en"
        THEN {Question(korean, options, english, korean) :
                 options \in UNION {Shuffles(Append(sample, english)) :
                                       sample \in Samples(distractors, NumDistractors)}}
        ELSE {Question(english, options, korean, korean) :
                 options \in UNION {Shuffles(Append(sample, korean)) :
                                       sample \in Samples(distractors, NumDistractors)}}

\* build_question, lines 156-161
Weights(pool_, stats_, mode_) ==
    [i \in 1..Len(pool_) |->
        LET korean == pool_[i][1]
            item_history == IF korean \in DOMAIN stats_
                            THEN stats_[korean].history
                            ELSE <<>>
        IN  compute_weight(item_history, mode_)]

\* random.choices(pool, weights=weights, k=1): the positions that can be
\* drawn are those of positive weight
Choices(pool_, weights) == {i \in 1..Len(pool_) : weights[i] > 0}

\* One outcome of build_question: the position drawn (0 when none was), the
\* result, and the arguments as the call leaves them.
BuildOutcome(position, result, stats_, pool_) ==
    [selected |-> position, question |-> result, stats |-> stats_, pool |-> pool_]

\* stats.setdefault(korean, {"history": []}) in place of stats.get(korean)
build_question_setdefault(pool_, stats_, mode_, direction_) ==
    LET weights == Weights(pool_, stats_, mode_)
        touched == [k \in DOMAIN stats_ \cup {item[1] : item \in Range(pool_)} |->
                       IF k \in DOMAIN stats_ THEN stats_[k]
                       ELSE [history |-> <<>>]]
    IN  IF Len(pool_) = 0
        THEN {BuildOutcome(0, Raised("IndexError"), touched, pool_)}
        ELSE IF Choices(pool_, weights) = {}
        THEN {BuildOutcome(0, Raised("ValueError"), touched, pool_)}
        ELSE {BuildOutcome(i, q, touched, pool_) :
                 <<i, q>> \in UNION {{<<j, r>> : r \in make_question(pool_, pool_[j], direction_)} :
                                      j \in Choices(pool_, weights)}}

\* build_question: the set of outcomes the random draws allow.  random.choices
\* raises IndexError on an empty pool and ValueError when no weight is
\* positive.
build_question(pool_, stats_, mode_, direction_) ==
    LET weights == Weights(pool_, stats_, mode_)
    IN  IF Len(pool_) = 0
        THEN {BuildOutcome(0, Raised("IndexError"), stats_, pool_)}
        ELSE IF Choices(pool_, weights) = {}
        THEN {BuildOutcome(0, Raised("ValueError"), stats_, pool_)}
        ELSE {BuildOutcome(i, q, stats_, pool_) :
                 <<i, q>> \in UNION {{<<j, r>> : r \in make_question(pool_, pool_[j], direction_)} :
                                      j \in Choices(pool_, weights)}}

(***************************************************************************)
(* One call of build_question on a pool, stats, mode and direction drawn   *)
(* from bounded sets.  A pool has 0 to MinEntries + 1 items; item i has    *)
(* its own term and translation, or repeats the term or the translation of *)
(* the first item, in at most MaxDup places in all.                        *)
(***************************************************************************)
KoreanWords == <<"k1", "k2", "k3", "k4", "k5">>
EnglishWords == <<"e1", "e2", "e3", "e4", "e5">>

PoolOf(n, same_korean, same_english) ==
    [i \in 1..n |->
        << IF i \in same_korean THEN KoreanWords[1] ELSE KoreanWords[i],
           IF i \in same_english THEN EnglishWords[1] ELSE EnglishWords[i] >>]

Pools ==
    UNION {{PoolOf(n, sk, se) :
               <<sk, se>> \in {d \in (SUBSET (2..n)) \X (SUBSET (2..n)) :
                                  Cardinality(d[1]) + Cardinality(d[2]) <= MaxDup}} :
           n \in 0..(MinEntries + 1)}

SampleStats ==
    { EmptyStats,
      [k \in {"k1", "k2"} |->
          [history |-> IF k = "k1" THEN Ones(HistoryWindow) ELSE <<0>>]] }

AppIdle == StartApp(MissingFile)

QuestionInit ==
    /\ AppIdle
    /\ WeightIdle
    /\ VocabIdle
    /\ CardsIdle
    /\ LoadIdle
    /\ pool \in Pools
    /\ stats \in SampleStats
    /\ mode \in Modes
    /\ direction \in Directions
    /\ selected = 0
    /\ question = NoQuestion

BuildQuestion ==
    /\ question.status = "none"
    /\ \E outcome \in build_question(pool, stats, mode, direction) :
          /\ question' = outcome.question
          /\ selected' = outcome.selected
          /\ stats' = outcome.stats
          /\ pool' = outcome.pool
    /\ UNCHANGED <<appvars, wvars, vvars, cvars, lvars, mode, direction>>

QuestionNext == BuildQuestion

SpecQuestion == QuestionInit /\ [][QuestionNext]_vars

(***************************************************************************)
(* One call of compute_weight on every history of 0 to 10 entries          *)
(***************************************************************************)
Histories == UNION {[1..n -> {0, 1}] : n \in 0..HistoryWindow}

WeightInit ==
    /\ AppIdle
    /\ QuestionIdle
    /\ VocabIdle
    /\ CardsIdle
    /\ LoadIdle
    /\ history \in Histories
    /\ mode \in Modes
    /\ weight = -1

ComputeWeight ==
    /\ weight = -1
    /\ weight' = compute_weight(history, mode)
    /\ UNCHANGED <<appvars, qvars, vvars, cvars, lvars, mode, history>>

WeightNext == ComputeWeight

SpecWeight == WeightInit /\ [][WeightNext]_vars

(***************************************************************************)
(* One call of load_vocab on lists of 0 to 5 entries, of which at most     *)
(* MaxOdd are not the plain entry of their position                        *)
(***************************************************************************)
EntryKinds ==
    {"plain", "same_korean", "same_english", "not_object", "no_korean",
     "no_english", "empty_korean", "number_english", "null_korean"}

\* the entry of a kind at position i of the list
EntryOf(kind, i) ==
    LET korean == VString(KoreanWords[i])
        english == VString(EnglishWords[i])
    IN  CASE kind = "plain" -> Entry(TRUE, korean, english)
          [] kind = "same_korean" ->
                 Entry(TRUE, VString(KoreanWords[1]), english)
          [] kind = "same_english" ->
                 Entry(TRUE, korean, VString(EnglishWords[1]))
          [] kind = "not_object" -> NotAnObject
          [] kind = "no_korean" -> Entry(TRUE, VMissing, english)
          [] kind = "no_english" -> Entry(TRUE, korean, VMissing)
          [] kind = "empty_korean" -> Entry(TRUE, VString(""), english)
          [] kind = "number_english" -> Entry(TRUE, korean, VNumber)
          [] kind = "null_korean" -> Entry(TRUE, VNull, english)

RawLists ==
    LET kinds == UNION {[1..n -> EntryKinds] : n \in 0..(MinEntries + 1)}
        few == {k \in kinds :
                   Cardinality({i \in 1..Len(k) : k[i] # "plain"}) <= MaxOdd}
    IN  {[i \in 1..Len(k) |-> EntryOf(k[i], i)] : k \in few}

VocabInit ==
    /\ AppIdle
    /\ QuestionIdle
    /\ WeightIdle
    /\ CardsIdle
    /\ LoadIdle
    /\ mode = "fresh"
    /\ raw_items \in RawLists
    /\ loaded_vocabulary = NoVocabulary

LoadVocab ==
    /\ loaded_vocabulary = NoVocabulary
    /\ loaded_vocabulary' = load_vocab(raw_items)
    /\ UNCHANGED <<appvars, qvars, wvars, cvars, lvars, mode, raw_items>>

VocabNext == LoadVocab

SpecVocab == VocabInit /\ [][VocabNext]_vars

(***************************************************************************)
(* Claims about the question builder                                       *)
(***************************************************************************)
\* C6: for a pool with at least 4 entries, 4 distinct translations and 4
\* distinct terms, build_question returns a question whose options are
\* exactly 4 pairwise distinct values that include the correct answer.
C6_FourDistinctOptions ==
    (question.status # "none" /\ ValidVocabulary(pool)) =>
        /\ question.status = "question"
        /\ Len(question.options) = NumDistractors + 1
        /\ Cardinality(Range(question.options)) = NumDistractors + 1
        /\ question.answer \in Range(question.options)

\* the answers of the pool, as values, that differ from the selected item's
AlternativeValues ==
    LET field == IF direction = "ko-en" THEN 2 ELSE 1
    IN  {item[field] : item \in Range(pool)} \ {pool[selected][field]}

\* C7: question construction fails with ValueError whenever fewer than 3
\* distinct answer values different from the selected item's answer exist in
\* the pool, and returns a question only when at least 3 exist.
C7_FailsWithoutThreeAlternatives ==
    (question.status # "none" /\ selected # 0) =>
        (question.status = "ValueError"
            <=> Cardinality(AlternativeValues) < NumDistractors)

\* C8: build_question leaves the stats mapping, every history in it and the
\* pool as they were, whether it returns a question or fails.
C8_BuildQuestionKeepsInputs ==
    [][(question.status = "none" /\ question'.status # "none") =>
          (stats' = stats /\ pool' = pool)]_vars

\* build_question has returned a question on stats that hold histories for
\* some terms of the pool and none for others.
C8_Witness ==
    /\ question.status = "question"
    /\ stats # EmptyStats
    /\ \E i \in 1..Len(pool) : pool[i][1] \notin DOMAIN stats
    /\ \E i \in 1..Len(pool) : pool[i][1] \in DOMAIN stats

(***************************************************************************)
(* Claims about compute_weight                                             *)
(***************************************************************************)
\* the number of wrong answers, counted from the correct ones
WrongIn(h) == Len(h) - Cardinality({i \in 1..Len(h) : h[i] = 1})

\* C9: compute_weight equals the stated policy.  With w the weight, S the
\* scale, a = attempts, fill = 10 - a and wrong the number of wrong entries:
\* a = 0 gives 102 (fresh) and 68 (review); 0 < a < 10 gives
\* 18 + 8 fill + 4 wrong/a (fresh) and 10 + 5 fill + 8 wrong/a (review); a = 10
\* gives 0.25 and 0.1 when wrong = 0, else 1.5 + 8 wrong/10 and
\* 1.0 + 14 wrong/10, which is 9.5 and 15 when every entry is wrong.  Each
\* equation is stated multiplied through by its denominators.
C9_WeightFollowsPolicy ==
    weight # -1 =>
        LET a == Len(history)
            wrong == WrongIn(history)
            fill == HistoryWindow - a
            fresh == mode = "fresh"
        IN  /\ a = 0 =>
                weight = (IF fresh THEN 102 ELSE 68) * WeightScale
            /\ (0 < a /\ a < HistoryWindow) =>
                a * weight =
                    (IF fresh THEN (18 + 8 * fill) * a + 4 * wrong
                     ELSE (10 + 5 * fill) * a + 8 * wrong) * WeightScale
            /\ (a = HistoryWindow /\ wrong = 0) =>
                (IF fresh THEN 4 ELSE 10) * weight = WeightScale
            /\ (a = HistoryWindow /\ wrong > 0) =>
                10 * weight =
                    (IF fresh THEN 15 + 8 * wrong ELSE 10 + 14 * wrong) * WeightScale
            /\ (a = HistoryWindow /\ wrong = HistoryWindow) =>
                2 * weight = (IF fresh THEN 19 ELSE 30) * WeightScale

\* compute_weight has returned 1.0 + 14 * 0.3 = 5.2 for a full window with
\* three wrong entries in review mode.
C9_Witness ==
    /\ Len(history) = HistoryWindow
    /\ WrongIn(history) = 3
    /\ mode = "review"
    /\ 10 * weight = 52 * WeightScale

\* a pool of four items of which the first has the given history
PoolWithHistory(h) ==
    [pool |-> PoolOf(MinEntries, {}, {}),
     stats |-> [k \in {KoreanWords[1]} |-> [history |-> h]]]

\* C10: compute_weight returns at least 0.1, hence a positive value, so that
\* in build_question every item of the pool can be the one selected.
C10_WeightAtLeastFloor ==
    weight # -1 =>
        /\ 10 * weight >= WeightScale
        /\ weight > 0
        /\ LET given == PoolWithHistory(history)
           IN  Choices(given.pool, Weights(given.pool, given.stats, mode))
                   = 1..Len(given.pool)

\* compute_weight has returned exactly 0.1: a full window of correct answers
\* in review mode.
C10_Witness ==
    /\ history = Ones(HistoryWindow)
    /\ mode = "review"
    /\ 10 * weight = WeightScale

\* the other of the two modes
OtherMode(m) == IF m = "fresh" THEN "review" ELSE "fresh"

\* C11: for every history of fewer than 10 outcomes, the weight in fresh mode
\* is strictly greater than the weight of the same history in review mode.
C11_FreshAboveReviewUnderfilled ==
    (weight # -1 /\ Len(history) < HistoryWindow) =>
        LET other == compute_weight(history, OtherMode(mode))
        IN  IF mode = "fresh" THEN weight > other ELSE other > weight

\* compute_weight has returned 10 + 5 + 8 = 23 in review mode for nine wrong
\* answers, the under-filled history where review comes closest to fresh (30).
C11_Witness ==
    /\ history = Zeros(HistoryWindow - 1)
    /\ mode = "review"
    /\ weight = 23 * WeightScale
    /\ compute_weight(history, "fresh") = 30 * WeightScale

\* C12: for every full window with at least one wrong outcome the review
\* weight is strictly greater than the fresh weight, and in each mode every
\* history other than the full window of correct answers weighs strictly more
\* than that one.
C12_ReviewAboveFreshFullWindow ==
    weight # -1 =>
        /\ (Len(history) = HistoryWindow /\ WrongIn(history) > 0) =>
              LET other == compute_weight(history, OtherMode(mode))
              IN  IF mode = "review" THEN weight > other ELSE other > weight
        /\ history # Ones(HistoryWindow) =>
              weight > compute_weight(Ones(HistoryWindow), mode)

\* compute_weight has returned 1.5 + 0.8 = 2.3 in fresh mode for a full window
\* with one wrong outcome, where review (2.4) is closest to fresh.
C12_Witness ==
    /\ Len(history) = HistoryWindow
    /\ WrongIn(history) = 1
    /\ mode = "fresh"
    /\ 10 * weight = 23 * WeightScale
    /\ 10 * compute_weight(history, "review") = 24 * WeightScale

(***************************************************************************)
(* Claims about load_vocab                                                 *)
(***************************************************************************)
\* an entry that is an object whose two fields are non-empty strings
WellFormed(entry) ==
    /\ entry.isdict
    /\ entry.korean.t = "str" /\ entry.korean.text # ""
    /\ entry.english.t = "str" /\ entry.english.text # ""

AllWellFormed == \A i \in 1..Len(raw_items) : WellFormed(raw_items[i])

\* C13: on a list of well-formed entries load_vocab succeeds exactly when the
\* list has at least 4 items, 4 distinct translations and 4 distinct terms,
\* and otherwise raises the error of the first of these conditions, in this
\* order, that does not hold.
C13_LoadVocabConditions ==
    (loaded_vocabulary.status # "none" /\ AllWellFormed) =>
        LET n == Len(raw_items)
            translations == {raw_items[i].english.text : i \in 1..n}
            terms == {raw_items[i].korean.text : i \in 1..n}
            expected ==
                IF n < MinEntries THEN TooFewEntriesMessage
                ELSE IF Cardinality(translations) < MinEntries
                     THEN TooFewTranslationsMessage
                ELSE IF Cardinality(terms) < MinEntries
                     THEN TooFewTermsMessage
                ELSE ""
        IN  /\ loaded_vocabulary.status = "ok" <=> expected = ""
            /\ loaded_vocabulary.status \in {"ok", "ValueError"}
            /\ loaded_vocabulary.message = expected

\* load_vocab has raised the error about translations on four well-formed
\* entries that share one translation and have fewer than four terms too.
C13_Witness ==
    /\ AllWellFormed
    /\ Len(raw_items) = MinEntries
    /\ Cardinality({raw_items[i].english.text : i \in 1..Len(raw_items)}) = 1
    /\ loaded_vocabulary.status = "ValueError"
    /\ loaded_vocabulary.message = TooFewTranslationsMessage

\* C14: load_vocab raises an invalid-entry error for every list with an entry
\* that is not an object with a non-empty string in both fields, and returns
\* no pool made from such a list.
C14_RejectsMalformedEntries ==
    (loaded_vocabulary.status # "none" /\ ~AllWellFormed) =>
        /\ loaded_vocabulary.status = "ValueError"
        /\ loaded_vocabulary.message \in {InvalidEntryMessage, MissingKeyMessage}

\* C15: when load_vocab succeeds, the pool is as long as the list and its
\* i-th pair holds the term and the translation of the i-th entry.
C15_PoolFollowsInput ==
    loaded_vocabulary.status = "ok" =>
        /\ Len(loaded_vocabulary.pairs) = Len(raw_items)
        /\ \A i \in 1..Len(raw_items) :
               /\ loaded_vocabulary.pairs[i][1] = raw_items[i].korean.text
               /\ loaded_vocabulary.pairs[i][2] = raw_items[i].english.text

\* load_vocab has returned a pool of five pairs in which the term of the
\* first entry occurs twice.
C15_Witness ==
    /\ loaded_vocabulary.status = "ok"
    /\ AllWellFormed
    /\ Len(loaded_vocabulary.pairs) = MinEntries + 1
    /\ \E i \in 2..Len(raw_items) :
           loaded_vocabulary.pairs[i][1] = loaded_vocabulary.pairs[1][1]

(***************************************************************************)
(* Claims about saving                                                     *)
(***************************************************************************)
\* every history in memory is the list of the outcomes recorded for its term
\* since the start: the progress was built by record_outcome alone
BuiltByRecording ==
    \A c \in DOMAIN progress :
        /\ \A t \in DOMAIN progress[c] : progress[c][t].history = log[c][t]
        /\ \A t \in Terms : log[c][t] # <<>> => t \in DOMAIN progress[c]

\* C16: after an answer whose write succeeded, load_progress of the file with
\* the same categories raises nothing and returns a progress equal to the one
\* in memory: the same categories, terms and histories.  The categories are
\* those of the session, a category named "__meta__" included.
C16_SaveLoadRoundTrip ==
    (event.op = "answer" /\ event.write = "ok") =>
        LET loaded == load_progress(disk, DOMAIN progress)
        IN  /\ loaded.status = "ok"
            /\ DOMAIN loaded.progress = DOMAIN progress
            /\ \A c \in DOMAIN progress :
                   /\ DOMAIN loaded.progress[c] = DOMAIN progress[c]
                   /\ \A t \in DOMAIN progress[c] :
                          loaded.progress[c][t].history = progress[c][t].history

\* a session that started without a file has recorded outcomes for two terms
\* of different categories and has saved them
C16_Witness ==
    /\ event.op = "answer" /\ event.write = "ok"
    /\ BuiltByRecording
    /\ Len(handled) = 2
    /\ handled[1].category # handled[2].category
    /\ \A c \in DOMAIN progress : progress[c] # EmptyStats
    /\ load_progress(disk, DOMAIN progress).progress = progress

\* C17: when the write of an answer fails, the file afterwards holds either
\* what it held before or the complete new snapshot.
C17_FailedWriteKeepsFile ==
    [][(Len(handled') > Len(handled) /\ event'.write # "ok") =>
          disk' \in {disk, Payload(progress', Metadata')}]_vars

\* an answer whose save was a success, and one whose save failed
SaveOk(i) == handled[i].write = "ok"

\* C18: a failed save is reported at most once per episode of failures: a
\* report is made for a save that failed and is not preceded by another
\* report without a successful save between the two; and the first failed
\* save after a successful one is reported.
C18_OneReportPerEpisode ==
    \A i \in 1..Len(handled) :
        /\ handled[i].warned =>
               /\ ~SaveOk(i)
               /\ \A j \in 1..(i - 1) :
                      handled[j].warned => \E k \in (j + 1)..(i - 1) : SaveOk(k)
        /\ (i > 1 /\ SaveOk(i - 1) /\ ~SaveOk(i)) => handled[i].warned

\* The same for the saves that fail with OSError: such a save is reported
\* exactly when no report was made since the last successful save, or since
\* the start when there was none.
C18_OSErrorReportedOnce ==
    \A i \in 1..Len(handled) :
        handled[i].warned <=>
            /\ handled[i].write \in WriteOutcomes \ {"ok"}
            /\ \A j \in 1..(i - 1) :
                   handled[j].warned => \E k \in (j + 1)..(i - 1) : SaveOk(k)

\* a failure was reported, the next write succeeded, and the failure after it
\* was reported again
C18_Witness ==
    /\ Len(handled) = 3
    /\ handled[1].write # "ok" /\ handled[1].warned
    /\ handled[2].write = "ok"
    /\ handled[3].write # "ok" /\ handled[3].warned
    /\ save_error_reported

\* the outcomes of the handled answers for one term, in the order handled
KeyOutcomes(c, t) ==
    LET events == SelectSeq(handled, LAMBDA e : e.category = c /\ e.korean = t)
    IN  [i \in 1..Len(events) |-> IF events[i].is_correct THEN 1 ELSE 0]

\* the outcomes of the handled answers, in order
HandledOutcomes ==
    [i \in 1..Len(handled) |-> IF handled[i].is_correct THEN 1 ELSE 0]

\* the number of correct outcomes at the end of a list
TrailingOnes(outcomes) ==
    CHOOSE k \in 0..Len(outcomes) :
        /\ \A i \in (Len(outcomes) - k + 1)..Len(outcomes) : outcomes[i] = 1
        /\ k = Len(outcomes) \/ outcomes[Len(outcomes) - k] = 0

\* C19: whatever the writes did (succeed, fail with OSError, or raise on a
\* text that cannot be encoded), the history in memory holds every outcome
\* answered so far and the streak counts the correct answers at the end of
\* them; the session takes the next answer, after the warning is closed when
\* one is open; and after an answer whose write succeeded the file holds all
\* these outcomes, those answered while writes failed included.
C19_FailedWriteIsRecoverable ==
    handled # <<>> =>
        /\ dialog => ENABLED CloseWarning
        /\ (~dialog /\ AnswerCount < MaxSaves) =>
               \A is_correct \in BOOLEAN, write \in WriteOutcomes :
                   ENABLED (/\ handle_answer(RecordCategory, is_correct,
                                             RecordTerm, Now, write)
                            /\ UNCHANGED <<qvars, wvars, vvars, cvars, lvars,
                                           mode>>)
        /\ \A t \in AnswerTerms :
               LET outcomes == KeyOutcomes(RecordCategory, t)
               IN  outcomes # <<>> =>
                       /\ t \in DOMAIN progress[RecordCategory]
                       /\ progress[RecordCategory][t].history = Recent(outcomes)
        /\ current_streak = TrailingOnes(HandledOutcomes)
        /\ handled[Len(handled)].write = "ok" =>
              LET loaded == load_progress(disk, Categories)
              IN  /\ loaded.status = "ok"
                  /\ \A t \in AnswerTerms :
                         LET outcomes == KeyOutcomes(RecordCategory, t)
                         IN  outcomes # <<>> =>
                                 /\ t \in DOMAIN loaded.progress[RecordCategory]
                                 /\ loaded.progress[RecordCategory][t].history
                                        = Recent(outcomes)
                  /\ loaded.metadata.streak = TrailingOnes(HandledOutcomes)

\* three answers were given in a session whose longest streak has a
\* timestamp that cannot be encoded: the save of the first, an incorrect one,
\* raised, the second, a correct one, replaced the timestamp and its write
\* failed, and the third was saved with the outcomes of all three
C19_Witness ==
    /\ Len(handled) = 3
    /\ handled[1].write = EncodeFailed /\ ~handled[1].is_correct
    /\ handled[2].write = "write_failed" /\ handled[2].is_correct
    /\ handled[3].write = "ok" /\ handled[3].is_correct
    /\ disk.exists /\ disk.valid
    /\ Len(load_progress(disk, Categories).progress[RecordCategory][RecordTerm]
               .history) = 3
    /\ ~save_error_reported

(***************************************************************************)
(* Claims about cards that share one progress store                        *)
(***************************************************************************)
\* the progress the session started with, and its history for a term
PanelStart == load_progress(PanelFile, Categories).progress
InitialHistory(c, t) ==
    IF t \in DOMAIN PanelStart[c] THEN PanelStart[c][t].history ELSE <<>>

\* the length of the longest run of correct outcomes in a list
LongestRun(outcomes) ==
    LET n == Len(outcomes)
        runs == {k \in 0..n : \E i \in 1..(n - k + 1) :
                                 \A j \in i..(i + k - 1) : outcomes[j] = 1}
    IN  CHOOSE k \in runs : \A m \in runs : m <= k

\* the store holds, for every term, the last 10 of its initial history
\* followed by the outcomes handled for it, and the streak counts every
\* handled answer once
StoreReflectsHandled ==
    /\ \A c \in Categories, t \in Terms :
           LET all == InitialHistory(c, t) \o KeyOutcomes(c, t)
           IN  IF all = <<>> THEN t \notin DOMAIN progress[c]
               ELSE /\ t \in DOMAIN progress[c]
                    /\ progress[c][t].history = Recent(all)
    /\ current_streak = TrailingOnes(HandledOutcomes)
    /\ longest_streak = LongestRun(HandledOutcomes)

\* C20: in every step, a card that reports an answer adds exactly one handled
\* event, for the category and term the card showed; a step in which no card
\* reports adds none; and after the step every history is the last (up to
\* 10) outcomes of its term in handling order and the streak reflects every
\* handled answer exactly once.
C20_AnswersTakeEffectAtomically ==
    [][/\ \A panel \in Panels :
              cards'[panel].reported > cards[panel].reported =>
                  /\ Len(handled') = Len(handled) + 1
                  /\ SubSeq(handled', 1, Len(handled)) = handled
                  /\ handled'[Len(handled')].category = cards[panel].category
                  /\ handled'[Len(handled')].korean = cards[panel].korean
       /\ (\A panel \in Panels : cards'[panel].reported <= cards[panel].reported) =>
              handled' = handled
       /\ StoreReflectsHandled']_vars

\* two cards have reported three answers: the first and the third for the
\* term that started with nine outcomes, whose history was trimmed to ten,
\* and the second for a term of the other category; the write of the third
\* failed, its warning is open and its submit waits, while the timer of the
\* other card has fired.
C20_Witness ==
    /\ Len(handled) = 3
    /\ handled[1].category = "c1" /\ handled[1].korean = "t1"
    /\ handled[2].category = "c2"
    /\ handled[3].category = "c1" /\ handled[3].korean = "t1"
    /\ handled[3].write = "write_failed" /\ dialog
    /\ Len(progress["c1"]["t1"].history) = HistoryWindow
    /\ progress["c1"]["t1"].history # InitialHistory("c1", "t1")
    /\ \E p \in Panels, q \in Panels :
           /\ cards[p].in_submit # "no" /\ cards[p].active
           /\ cards[q].active /\ cards[q].pending = 0 /\ cards[q].source = "c1"
           /\ cards[q].in_submit = "no"
    /\ StoreReflectsHandled

(***************************************************************************)
(* Claims about the snapshot and about load_progress                       *)
(***************************************************************************)
\* the file is the snapshot of the memory: an object with the four streak
\* fields, and for every category an object with exactly the terms that have
\* a non-empty history, each stored as {"history": [...]} with the same
\* entries
DiskIsSnapshot ==
    /\ disk.exists /\ disk.valid /\ disk.isdict /\ disk.hasmeta
    /\ disk.meta.streak = JInt(current_streak)
    /\ disk.meta.streak_timestamp = streak_timestamp
    /\ disk.meta.longest_streak = JInt(longest_streak)
    /\ disk.meta.longest_streak_timestamp = longest_streak_timestamp
    /\ DOMAIN disk.cats = DOMAIN progress
    /\ \A c \in DOMAIN progress :
           /\ disk.cats[c].isdict
           /\ DOMAIN disk.cats[c].recs =
                  {t \in DOMAIN progress[c] : progress[c][t].history # <<>>}
           /\ \A t \in DOMAIN disk.cats[c].recs :
                  /\ disk.cats[c].recs[t].shape = "dict_history"
                  /\ disk.cats[c].recs[t].items =
                         [i \in 1..Len(progress[c][t].history) |->
                             JInt(progress[c][t].history[i])]

\* every answer has made one save attempt
OneSavePerAnswer ==
    /\ Len(handled) = AnswerCount
    /\ handled[Len(handled)].write = event.write
    /\ event.write \in WriteOutcomes \cup {EncodeFailed}

\* C21: every answer makes one save attempt, and after an answer whose write
\* succeeded the file is the snapshot of the memory as it is after that
\* answer: an object with the four streak fields, and for every category an
\* object with exactly the terms that have a non-empty history, each stored
\* as {"history": [...]} with the same entries.
C21_SnapshotOnEveryAnswer ==
    event.op = "answer" =>
        /\ OneSavePerAnswer
        /\ event.write = "ok" => DiskIsSnapshot

\* The same when no category is named "__meta__": then the file is the
\* snapshot after every answer whose write succeeded.
C21_SnapshotOfOrdinaryCatalog ==
    (event.op = "answer" /\ MetaKey \notin DOMAIN progress) =>
        /\ OneSavePerAnswer
        /\ event.write = "ok" => DiskIsSnapshot

\* With a category named "__meta__" the file of a successful save has the
\* stats of that category under the key and none of the streak fields of
\* the memory: a count is absent or the entry of a term, a timestamp empty
\* or the text of the entry of a term.
C21_MetaCategoryReplacesMetadata ==
    (event.op = "answer" /\ event.write = "ok" /\ MetaKey \in DOMAIN progress) =>
        /\ OneSavePerAnswer
        /\ disk.meta.streak \in {JAbsent, JNull}
        /\ disk.meta.longest_streak \in {JAbsent, JNull}
        /\ disk.meta.streak_timestamp \notin Times
        /\ disk.meta.longest_streak_timestamp \notin Times
        /\ \A key \in {"streak", "longest_streak"} :
               disk.meta[key] =
                   IF key \in DOMAIN progress[MetaKey] THEN JNull ELSE JAbsent
        /\ \A key \in {"streak_timestamp", "longest_streak_timestamp"} :
               disk.meta[key] =
                   IF key \in DOMAIN progress[MetaKey]
                   THEN DictStamp(progress[MetaKey][key].history)
                   ELSE 0
        /\ DOMAIN disk.cats = DOMAIN progress
        /\ DOMAIN disk.cats[MetaKey].recs = DOMAIN progress[MetaKey]

\* the second answer of a session, a correct one that follows an answer whose
\* write failed, has been saved: the file holds a streak of at least 1 and
\* terms in both categories
C21_Witness ==
    /\ Len(handled) = 2
    /\ handled[1].write # "ok"
    /\ event.write = "ok" /\ event.is_correct
    /\ MetaKey \notin DOMAIN progress
    /\ disk.meta.streak.n = current_streak /\ current_streak >= 1
    /\ \A c \in DOMAIN progress : DOMAIN disk.cats[c].recs # {}

\* a correct answer in a catalog with a category named "__meta__" has been
\* saved and the streak is not in the file
C21_MetaCategoryWitness ==
    /\ event.op = "answer" /\ event.write = "ok" /\ event.is_correct
    /\ event.category = MetaKey
    /\ current_streak >= 1
    /\ disk.meta.streak = JAbsent
    /\ load_progress(disk, DOMAIN progress).metadata.streak = 0
    /\ DOMAIN disk.cats[MetaKey].recs # {}

\* the integer int() makes of a count, 0 for a key that is absent
CountOf(x) == IF x.t = "absent" THEN 0 ELSE x.n
IsCount(x) == x.t \in {"int", "bool", "numstr", "float", "absent"}

\* the categories of the file that load_progress reads as objects
ReadCategories ==
    {c \in requested : disk.cats[c].isdict}

\* the counts int() converts, and those that are numbers
IsNumber(x) == IsCount(x) \/ x.t = "inf"

\* C22: a record in the {attempts, correct} shape whose attempts are a
\* positive count and whose correct is a number is loaded as min(c, 10) ones
\* followed by min(attempts - c, 10 - min(c, 10)) zeros, where c is correct
\* clamped to 0..attempts: at most 10 entries, the correct ones first.  For
\* an infinite correct, c is 0 or attempts, so the history has
\* min(attempts, 10) equal entries.  The file is a JSON object in which
\* nothing else is out of range.
C22_AggregateBecomesHistory ==
    (load_result.status # "none" /\ disk.exists /\ disk.utf8 /\ disk.valid
       /\ disk.isdict) =>
        \A c \in ReadCategories : \A t \in DOMAIN disk.cats[c].recs :
            LET record == disk.cats[c].recs[t]
                attempts == CountOf(record.attempts)
                clamped == IF CountOf(record.correct) < 0 THEN 0
                           ELSE IF CountOf(record.correct) > attempts THEN attempts
                           ELSE CountOf(record.correct)
                ones == IF clamped < HistoryWindow THEN clamped ELSE HistoryWindow
                rest == HistoryWindow - ones
                zeros == IF attempts - clamped < rest THEN attempts - clamped ELSE rest
            IN  (/\ record.shape = "dict"
                 /\ IsCount(record.attempts) /\ IsNumber(record.correct)
                 /\ attempts > 0
                 /\ ~MetaOverflows(disk.hasmeta, disk.meta)
                 /\ \A c2 \in ReadCategories :
                        \A t2 \in DOMAIN disk.cats[c2].recs :
                            <<c2, t2>> # <<c, t>> =>
                                ~RecordOverflows(disk.cats[c2].recs[t2])) =>
                    /\ load_result.status = "ok"
                    /\ t \in DOMAIN load_result.progress[c]
                    /\ LET h == load_result.progress[c][t].history
                       IN  IF IsCount(record.correct)
                           THEN /\ Len(h) = ones + zeros
                                /\ Len(h) <= HistoryWindow
                                /\ \A i \in 1..Len(h) :
                                       h[i] = IF i <= ones THEN 1 ELSE 0
                           ELSE /\ Len(h) = Min(attempts, HistoryWindow)
                                /\ \A i \in 1..Len(h) : h[i] = h[1]

\* The same for the files load_progress returns on
C22_ConvertedWhenLoaded ==
    load_result.status = "ok" /\ disk.exists =>
        \A c \in ReadCategories : \A t \in DOMAIN disk.cats[c].recs :
            LET record == disk.cats[c].recs[t]
                attempts == CountOf(record.attempts)
                clamped == IF CountOf(record.correct) < 0 THEN 0
                           ELSE IF CountOf(record.correct) > attempts THEN attempts
                           ELSE CountOf(record.correct)
                ones == IF clamped < HistoryWindow THEN clamped ELSE HistoryWindow
                rest == HistoryWindow - ones
                zeros == IF attempts - clamped < rest THEN attempts - clamped ELSE rest
            IN  (/\ record.shape = "dict"
                 /\ IsCount(record.attempts) /\ IsCount(record.correct)
                 /\ attempts > 0) =>
                    /\ t \in DOMAIN load_result.progress[c]
                    /\ LET h == load_result.progress[c][t].history
                       IN  /\ Len(h) = ones + zeros
                           /\ Len(h) <= HistoryWindow
                           /\ \A i \in 1..Len(h) : h[i] = IF i <= ones THEN 1 ELSE 0

\* the positions of the int and bool values of a list, and the k-th of them
KeptPositions(items) == {i \in 1..Len(items) : items[i].t \in {"int", "bool"}}
KthKept(items, k) ==
    CHOOSE i \in KeptPositions(items) :
        Cardinality({j \in KeptPositions(items) : j <= i}) = k

\* C23: for a file that is an object, every history load_progress stores is
\* non-empty, has at most 10 entries and holds only 0 and 1; for a list (bare
\* or under "history") it is the last 10 of the int and bool values of the
\* list, each as 0 or 1; and a record whose history comes out empty has no
\* entry.
C23_StoredHistoriesAreWindows ==
    load_result.status = "ok" /\ disk.exists =>
        /\ DOMAIN load_result.progress = requested
        /\ \A c \in requested \ ReadCategories : load_result.progress[c] = EmptyStats
        /\ \A c \in ReadCategories :
               /\ DOMAIN load_result.progress[c] \subseteq DOMAIN disk.cats[c].recs
               /\ \A t \in DOMAIN load_result.progress[c] :
                      LET h == load_result.progress[c][t].history
                      IN  /\ h # <<>>
                          /\ Len(h) <= HistoryWindow
                          /\ \A i \in 1..Len(h) : h[i] \in {0, 1}
               /\ \A t \in DOMAIN disk.cats[c].recs :
                      LET record == disk.cats[c].recs[t]
                          n == Cardinality(KeptPositions(record.items))
                          len == IF n < HistoryWindow THEN n ELSE HistoryWindow
                      IN  /\ record.shape \in {"dict_history", "list"} =>
                                IF n = 0
                                THEN t \notin DOMAIN load_result.progress[c]
                                ELSE /\ t \in DOMAIN load_result.progress[c]
                                     /\ LET h == load_result.progress[c][t].history
                                        IN  /\ Len(h) = len
                                            /\ \A i \in 1..len :
                                                   h[i] = IF record.items[
                                                              KthKept(record.items,
                                                                      n - len + i)].n # 0
                                                          THEN 1 ELSE 0
                          /\ record.shape = "other" =>
                                t \notin DOMAIN load_result.progress[c]
                          /\ (record.shape = "dict" /\ IsCount(record.attempts)
                                 /\ CountOf(record.attempts) <= 0) =>
                                t \notin DOMAIN load_result.progress[c]

\* load_progress has kept the last ten of the twelve int and bool values of a
\* "history" list of fifteen, next to a list that was stored whole
C23_Witness ==
    /\ load_result.status = "ok"
    /\ requested = Categories
    /\ disk.exists /\ disk.isdict
    /\ DOMAIN disk.cats["c1"].recs = {"t1", "t2"}
    /\ disk.cats["c1"].recs["t1"] = RawHistory(LongItems)
    /\ Len(load_result.progress["c1"]["t1"].history) = HistoryWindow
    /\ DOMAIN load_result.progress["c1"] = {"t1", "t2"}
    /\ load_result.progress["c2"] # EmptyStats

\* C24: when the file does not exist, load_progress raises nothing and
\* returns a progress with an empty stats mapping for each requested category
\* and the metadata streak 0, longest_streak 0 and empty timestamps.
C24_MissingFileLoadsEmpty ==
    (load_result.status # "none" /\ ~disk.exists) =>
        /\ load_result.status = "ok"
        /\ DOMAIN load_result.progress = requested
        /\ \A c \in requested : DOMAIN load_result.progress[c] = {}
        /\ load_result.metadata.streak = 0
        /\ load_result.metadata.longest_streak = 0
        /\ load_result.metadata.streak_timestamp = 0
        /\ load_result.metadata.longest_streak_timestamp = 0

\* load_progress has returned for a missing file and both categories
C24_Witness ==
    /\ ~disk.exists
    /\ requested = Categories
    /\ load_result.status = "ok"
    /\ load_result.progress = [c \in Categories |-> EmptyStats]

\* the history kept for a term of a category, empty when none is kept
HistoryIn(prog, c, t) ==
    IF c \in DOMAIN prog /\ t \in DOMAIN prog[c] THEN prog[c][t].history ELSE <<>>

\* C25: in every step, the history of a category and term changes only if
\* the step handles an answer for that category and that term; loading a
\* question, changing the direction, the answer mode or the sections, saving,
\* and answers for other terms leave it as it was.
C25_HistoriesChangeOnlyByAnswers ==
    [][\A c \in Categories, t \in Terms :
           HistoryIn(progress', c, t) # HistoryIn(progress, c, t) =>
               /\ Len(handled') = Len(handled) + 1
               /\ handled'[Len(handled')].category = c
               /\ handled'[Len(handled')].korean = t]_vars

\* an answer for c1/t1 has changed its history, c2/t2 has none, and since the
\* start the direction, the answer mode and the sections have been changed
\* and a reload timer is still to fire
C25_Witness ==
    /\ Len(handled) = 1
    /\ handled[1].category = "c1" /\ handled[1].korean = "t1"
    /\ HistoryIn(progress, "c1", "t1") # InitialHistory("c1", "t1")
    /\ HistoryIn(progress, "c2", "t2") = <<>>
    /\ direction = "en-ko"
    /\ \E p \in Panels :
           /\ cards[p].answer_mode = "type"
           /\ cards[p].all_categories = {"c2"}
           /\ cards[p].pending > 0

\* C26: a card reports at most one outcome for each question it loads: once
\* its submit or submit_text has reported and returned it is inactive (while
\* the save warning is open the call has not returned and the window takes
\* no input), and until load_question runs again no submit or submit_text
\* of that card adds an answer or changes a history or a streak; submitting
\* a blank typed answer records nothing and leaves the card active.
C26_OneOutcomePerQuestion ==
    [][/\ \A p \in Panels :
              /\ cards'[p].reported <= 1
              /\ (cards'[p].reported = 1 /\ cards'[p].in_submit = "no") =>
                     ~cards'[p].active
              /\ cards'[p].in_submit # "no" => dialog'
       /\ handled' # handled =>
              \E p \in Panels :
                  /\ cards[p].active /\ cards[p].reported = 0
                  /\ cards[p].in_submit = "no"
                  /\ cards'[p].reported = 1
       /\ handled' = handled =>
              /\ \A c \in Categories, t \in Terms :
                     HistoryIn(progress', c, t) = HistoryIn(progress, c, t)
              /\ current_streak' = current_streak
              /\ longest_streak' = longest_streak
       /\ \A p \in Panels :
              (cards'[p].feedback = BlankFeedback /\ cards[p].feedback # BlankFeedback) =>
                  /\ handled' = handled
                  /\ cards[p].active /\ cards'[p].active
                  /\ cards'[p].reported = 0]_vars

\* in type mode one card has reported its answer and waits for its timer,
\* and the other has just refused a blank answer and is still active
C26_Witness ==
    /\ Len(handled) = 1
    /\ \E p \in Panels, q \in Panels :
           /\ cards[p].answer_mode = "type"
           /\ cards[p].reported = 1 /\ ~cards[p].active /\ cards[p].pending = 1
           /\ handled[1].category = cards[p].source
           /\ handled[1].korean = cards[p].korean
           /\ cards[q].feedback = BlankFeedback
           /\ cards[q].reported = 0 /\ cards[q].active

\* C27: whenever a card is active, its question was built from the pool of
\* the category the card has, and every answer is recorded under the
\* category its term was drawn from, in every interleaving of answers,
\* rotation, reload timers, and direction, answer-mode and section changes.
C27_QuestionFromCardCategory ==
    [][/\ \A p \in Panels :
              cards'[p].active => cards'[p].source = cards'[p].category
       /\ handled' # handled =>
              \E p \in Panels :
                  /\ cards[p].active /\ cards'[p].reported > cards[p].reported
                  /\ handled'[Len(handled')].category = cards[p].source
                  /\ handled'[Len(handled')].korean = cards[p].korean]_vars

\* a card answered a question, was reloaded by a change of direction before
\* its timer fired, and answered again; the write failed, and while the
\* warning is open and its submit waits, the timer has fired and loaded a
\* question of the category the card still has
C27_Witness ==
    /\ Len(handled) = 2 /\ handled[2].category = "c2"
    /\ direction = "en-ko"
    /\ dialog
    /\ \E p \in Panels :
           /\ cards[p].in_submit = "correct"
           /\ cards[p].active /\ cards[p].pending = 0 /\ cards[p].reported = 0
           /\ cards[p].category = "c2" /\ cards[p].source = "c2"

\* C28: after every answer it reports, a card becomes active again with a
\* newly loaded question and no answer in progress, provided the timers that
\* are due fire and a save warning that was shown is closed: a card whose
\* submit has reported an answer is inactive with a reload timer pending,
\* and every card is again and again active with a question for which it
\* has reported nothing; an inactive
\* card always has a reload timer pending, and when the card allows more than
\* one category the question it becomes active with comes from a category
\* other than that of the answered question, unless the allowed categories
\* are changed before.
C28_ReloadAfterAnswer ==
    /\ [](\A p \in Panels :
             (cards[p].reported > 0 /\ cards[p].in_submit = "no") =>
                 (~cards[p].active /\ cards[p].pending > 0))
    /\ \A p \in Panels : []<>(/\ cards[p].active /\ cards[p].in_submit = "no"
                              /\ cards[p].reported = 0)
    /\ [](\A p \in Panels : ~cards[p].active => cards[p].pending > 0)
    /\ [][\A p \in Panels :
              (~cards[p].active /\ cards'[p].active) =>
                  /\ cards'[p].reported = 0
                  /\ (/\ cards'[p].all_categories = cards[p].all_categories
                      /\ Cardinality(cards[p].all_categories) > 1) =>
                         cards'[p].source # cards[p].source]_vars

\* a card answered a question of c1 and its timer has fired: it is active
\* with a question of c2, both categories being allowed
C28_Witness ==
    /\ Len(handled) = 1 /\ handled[1].category = "c1"
    /\ direction = "ko-en"
    /\ \E p \in Panels :
           /\ cards[p].active /\ cards[p].pending = 0 /\ cards[p].reported = 0
           /\ cards[p].all_categories = Categories
           /\ cards[p].answer_mode = "choice"
           /\ cards[p].source = "c2"
           /\ \A q \in Panels \ {p} : cards[q].source = "c1" /\ cards[q].active

====
